---- MODULE Spec2Model ----
(***************************************************************************)
(* Verification model of the nsys_tui trace-correlation engine:            *)
(*   tree.py        primary-thread selection, NVTX tree, deduplication     *)
(*   projection.py  NVTX -> GPU projection and nesting depth               *)
(*   overlap.py     kernel classification, compute/NCCL overlap            *)
(*   ai/analyzer.py convergence report                                     *)
(*   profile.py     the queries over the event store                       *)
(*                                                                         *)
(* Timestamps are integers.  The engine only compares, subtracts and adds  *)
(* them, so the model counts time in units of 2e9 ns: the literal          *)
(* int(2e9) of the look-forward window is LookForward == 1.                *)
(*                                                                         *)
(* Strings the code inspects (kernel names) are sequences of one-letter    *)
(* strings, so that lower() and the "in" substring test are computed.      *)
(* Strings the code only copies or tests for emptiness (NVTX text) are     *)
(* TLA+ strings.                                                           *)
(***************************************************************************)
EXTENDS Integers, Sequences, FiniteSets, TLC

VARIABLES
    nvtx,        \* NVTX_EVENTS rows [text, tid, start, end]
    runtime,     \* CUPTI_ACTIVITY_KIND_RUNTIME rows [tid, start, end, corr]
    kernel_tbl,  \* CUPTI_ACTIVITY_KIND_KERNEL rows [corr, dev, start, end, name, stream]
    device,      \* argument: target deviceId
    trim,        \* argument: <<T0, T1>>, the output window
    pad,         \* argument: look-back pad
    pc,          \* "call" before the operation runs, "done" after it returned
    primary_tid, \* value returned by _find_primary_thread
    roots,       \* value returned by build_nvtx_tree
    results,     \* value returned by project_nvtx
    kname,       \* argument of classify_kernel
    kclass,      \* value returned by classify_kernel
    ov,          \* value returned by overlap_analysis
    tree_roots,  \* argument of convergence_report and find_refinement_targets
    report,      \* value returned by convergence_report
    max_kernels, \* argument of find_refinement_targets
    targets,     \* value returned by find_refinement_targets
    marker,      \* argument of detect_iterations
    iterations,  \* the markers detect_iterations kept (its local list)
    iter_results, \* value returned by detect_iterations
    breakdown,   \* outcome of nccl_breakdown: the list returned or the exception raised
    depth_stacks, \* the per-thread depth stacks most recently created by project_nvtx
    depth_stacks_before, \* what depth_stacks held when the latest call of project_nvtx began
    calls,       \* number of calls of project_nvtx made so far
    roots_before, \* value returned by build_nvtx_tree before the store was edited
    removed,     \* number of rows of other threads taken out of the store
    question,    \* the question given to Agent._select_skills
    selected_skills, \* value returned by Agent._select_skills
    parent_pattern, \* parent_pattern argument of search_hierarchy
    child_pattern, \* child_pattern argument of search_hierarchy
    hierarchy,   \* value returned by search_hierarchy
    conversation, \* Agent._conversation, the LLM message history
    asks         \* number of calls of Agent.ask made so far

storeVars == <<nvtx, runtime, kernel_tbl>>
argVars   == <<device, trim, pad>>
traceOut  == <<primary_tid, roots, results>>
overlapVars == <<kname, kclass, ov>>
convVars == <<tree_roots, report>>
targetVars == <<max_kernels, targets>>
iterVars == <<marker, iterations, iter_results>>
callVars == <<depth_stacks, depth_stacks_before, calls>>
frameVars == <<roots_before, removed>>
agentVars == <<question, selected_skills>>
searchVars == <<parent_pattern, child_pattern, hierarchy>>
chatVars == <<conversation, asks>>
restVars == <<targetVars, iterVars, breakdown, callVars, frameVars, agentVars, searchVars,
              chatVars>>
vars == <<nvtx, runtime, kernel_tbl, device, trim, pad, pc, primary_tid, roots, results,
          kname, kclass, ov, tree_roots, report, restVars>>

----------------------------------------------------------------------------
(* Bounds of the model *)

MaxT == 2          \* CPU timestamps range over 0..MaxT
MaxFragments == 3  \* a kernel name is made of at most MaxFragments fragments
MaxKT == 4         \* GPU timestamps of the overlap analysis range over 0..MaxKT
MaxChildren == 2   \* children of one node of a tree given to the analyzer

ScopeCounts == 0..2       \* number of rows of NVTX_EVENTS
LaunchCounts == 0..2      \* number of rows of CUPTI_ACTIVITY_KIND_RUNTIME
LaunchDurs == {0, 1}      \* end - start of a launch call
Tids == {1, 2}            \* globalTid values
Texts == {"fwd", ""}      \* NVTX text values (non-NULL)
KernelSpans == {<<0, 1>>, <<1, 2>>}   \* <<start, end>> of a kernel on device 0

(* int(2e9) in the unit of the model *)
LookForward == 1

(* pad = int(5e9) of detect_iterations is 2.5 units; the timestamps of the  *)
(* model are whole units, for which start >= t[0] - 2.5 is start >= t[0] - 2 *)
IterationPad == 2

----------------------------------------------------------------------------
(* Generic helpers *)

SetMin(S) == CHOOSE x \in S : \A y \in S : x <= y
SetMax(S) == CHOOSE x \in S : \A y \in S : x >= y
Range(s) == {s[i] : i \in DOMAIN s}
SortedByStart(s) == \A i \in 1..(Len(s) - 1) : s[i].start <= s[i + 1].start

(* proper containment of CPU intervals *)
Inside(b, a) ==
    /\ a.start <= b.start /\ b.end <= a.end
    /\ <<a.start, a.end>> # <<b.start, b.end>>

(* list.sort(key = start) / ORDER BY start: a stable insertion sort *)
RECURSIVE InsertByStart(_, _)
InsertByStart(s, x) ==
    IF s = <<>> THEN <<x>>
    ELSE IF s[Len(s)].start <= x.start THEN Append(s, x)
    ELSE Append(InsertByStart(SubSeq(s, 1, Len(s) - 1), x), s[Len(s)])

RECURSIVE OrderByStart(_)
OrderByStart(s) ==
    IF s = <<>> THEN <<>>
    ELSE InsertByStart(OrderByStart(SubSeq(s, 1, Len(s) - 1)), s[Len(s)])

----------------------------------------------------------------------------
(* profile.py: the queries *)

(* kernel_map(device): correlationId -> kernel, all kernels of the device *)
kernel_map(dev) ==
    LET rows == {k \in Range(kernel_tbl) : k.dev = dev}
    IN  [c \in {k.corr : k \in rows} |-> CHOOSE k \in rows : k.corr = c]

(* gpu_threads(device): threads with a launch joined to a kernel of the device *)
gpu_threads(dev) ==
    {r.tid : r \in {r \in Range(runtime) :
                      \E k \in Range(kernel_tbl) : k.corr = r.corr /\ k.dev = dev}}

(* the runtime rows of one thread inside window, ORDER BY start *)
runtime_rows(tid, window) ==
    LET Keep(r) == r.tid = tid /\ r.start >= window[1] /\ r.end <= window[2]
    IN  OrderByStart(SelectSeq(runtime, Keep))

(* runtime_index(threads, window): tid -> runtime rows *)
runtime_index(threads, window) == [tid \in threads |-> runtime_rows(tid, window)]

(* nvtx_events(threads, window) *)
nvtx_events(threads, window) ==
    LET Keep(n) == /\ n.end > n.start
                   /\ n.start >= window[1] /\ n.start <= window[2]
                   /\ n.tid \in threads
    IN  OrderByStart(SelectSeq(nvtx, Keep))

----------------------------------------------------------------------------
(* projection.py *)

RECURSIVE PopClosed(_, _)
PopClosed(stk, start) ==
    IF stk # <<>> /\ stk[Len(stk)] <= start
    THEN PopClosed(SubSeq(stk, 1, Len(stk) - 1), start)
    ELSE stk

(* stk.sort(reverse=True) on a list of integers *)
RECURSIVE SortDesc(_)
SortDesc(s) ==
    IF s = <<>> THEN <<>>
    ELSE LET m == SetMax(Range(s))
             i == CHOOSE j \in DOMAIN s : s[j] = m
         IN  <<m>> \o SortDesc(SubSeq(s, 1, i - 1) \o SubSeq(s, i + 1, Len(s)))

StackOf(stacks, tid) == IF tid \in DOMAIN stacks THEN stacks[tid] ELSE <<>>

(* a depth taken from one stack that the scopes of every thread share *)
_compute_depth_shared(stacks, tid, start, end) ==
    LET stk == PopClosed(StackOf(stacks, 0), start)
    IN  [depth  |-> Len(stk),
         stacks |-> (0 :> SortDesc(Append(stk, end))) @@ stacks]

(* _compute_depth: the depth returned and the stacks it leaves behind *)
_compute_depth(stacks, tid, start, end) ==
    LET stk == PopClosed(StackOf(stacks, tid), start)
    IN  [depth  |-> Len(stk),
         stacks |-> (tid :> SortDesc(Append(stk, end))) @@ stacks]

(* the correlation loop shared by project_nvtx, build_nvtx_tree and         *)
(* detect_iterations: the kernels of the launches inside [cpu_start,cpu_end] *)
RECURSIVE Correlate(_, _, _, _, _)
Correlate(rts, i, cpu_start, cpu_end, kmap) ==
    IF i > Len(rts) THEN <<>>
    ELSE IF rts[i].start > cpu_end THEN <<>>
    ELSE IF /\ rts[i].start >= cpu_start /\ rts[i].end <= cpu_end
            /\ rts[i].corr \in DOMAIN kmap
         THEN <<kmap[rts[i].corr]>> \o Correlate(rts, i + 1, cpu_start, cpu_end, kmap)
         ELSE Correlate(rts, i + 1, cpu_start, cpu_end, kmap)

(* an intersection test that rejects intervals touching the window at an end *)
IntersectsStrict(s, e, window) == e > window[1] /\ s < window[2]

(* the test both emission branches apply: pe >= trim[0] and ps <= trim[1] *)
Intersects(s, e, window) == e >= window[1] /\ s <= window[2]

(* the body of the loop of project_nvtx for the i-th loaded row; entries   *)
(* carry src, the index of the row they come from, which the code does not *)
(* store; it is read only by the properties                                *)
RECURSIVE ProjectLoop(_, _, _, _, _, _)
ProjectLoop(rows, i, stacks, rt_idx, kmap, window) ==
    IF i > Len(rows) THEN <<>>
    ELSE IF rows[i].text = "" THEN ProjectLoop(rows, i + 1, stacks, rt_idx, kmap, window)
    ELSE
      LET n  == rows[i]
          d  == _compute_depth(stacks, n.tid, n.start, n.end)
          ks == Correlate(IF n.tid \in DOMAIN rt_idx THEN rt_idx[n.tid] ELSE <<>>,
                          1, n.start, n.end, kmap)
          ps == SetMin({ks[j].start : j \in DOMAIN ks})
          pe == SetMax({ks[j].end : j \in DOMAIN ks})
          out == IF ks # <<>>
                 THEN IF Intersects(ps, pe, window)
                      THEN <<[name |-> n.text, start |-> ps, end |-> pe,
                              depth |-> d.depth, projected |-> TRUE, src |-> i]>>
                      ELSE <<>>
                 ELSE IF Intersects(n.start, n.end, window)
                      THEN <<[name |-> n.text, start |-> n.start, end |-> n.end,
                              depth |-> d.depth, projected |-> FALSE, src |-> i]>>
                      ELSE <<>>
      IN  out \o ProjectLoop(rows, i + 1, d.stacks, rt_idx, kmap, window)

(* a load of the scopes that start inside the window, without the look-back *)
LoadedScopesNoPad(dev, window, pd) ==
    nvtx_events(gpu_threads(dev), <<window[1], window[2]>>)

LoadedScopes(dev, window, pd) ==
    nvtx_events(gpu_threads(dev), <<window[1] - pd, window[2]>>)

project_nvtx(dev, window, pd) ==
    LET kmap == kernel_map(dev)
        threads == gpu_threads(dev)
        rt_idx == runtime_index(threads, <<window[1] - pd, window[2] + LookForward>>)
    IN  IF DOMAIN kmap = {} THEN <<>>
        ELSE ProjectLoop(LoadedScopes(dev, window, pd), 1, <<>>, rt_idx, kmap, window)

(* a call that goes on with the stacks an earlier call left *)
KeptStacks(old) == old

(* stacks: dict = {} at the start of the loop of project_nvtx *)
FreshStacks(old) == <<>>

(* stacks as the loop of project_nvtx leaves them, from row i on *)
RECURSIVE StacksAfter(_, _, _)
StacksAfter(rows, i, stk) ==
    IF i > Len(rows) THEN stk
    ELSE IF rows[i].text = "" THEN StacksAfter(rows, i + 1, stk)
    ELSE StacksAfter(rows, i + 1,
                     _compute_depth(stk, rows[i].tid, rows[i].start, rows[i].end).stacks)

(* project_nvtx as one call among several: old is what the stacks of the    *)
(* previous call hold; the call returns results and leaves its own stacks   *)
ProjectCall(dev, window, pd, old) ==
    IF DOMAIN kernel_map(dev) = {} THEN [results |-> <<>>, stacks |-> old]
    ELSE [results |-> ProjectLoop(LoadedScopes(dev, window, pd), 1, FreshStacks(old),
                                  runtime_index(gpu_threads(dev),
                                                <<window[1] - pd, window[2] + LookForward>>),
                                  kernel_map(dev), window),
          stacks |-> StacksAfter(LoadedScopes(dev, window, pd), 1, FreshStacks(old))]

----------------------------------------------------------------------------
(* tree.py *)

(* launches joined to a kernel of the device, per thread (the GROUP BY) *)
LaunchCount(dev, tid) ==
    Cardinality({i \in DOMAIN runtime :
                   /\ runtime[i].tid = tid
                   /\ \E k \in Range(kernel_tbl) :
                          k.corr = runtime[i].corr /\ k.dev = dev})



(* a selector that falls back on any thread that made a launch call *)
_find_primary_thread_fallback(dev) ==
    LET groups == {t \in {r.tid : r \in Range(runtime)} : LaunchCount(dev, t) > 0}
    IN  IF groups = {} THEN {0} \cup {r.tid : r \in Range(runtime)}
        ELSE {t \in groups : \A u \in groups : LaunchCount(dev, t) >= LaunchCount(dev, u)}

(* _find_primary_thread: the values the query can return.  ORDER BY cnt     *)
(* DESC LIMIT 1 names no second sort key, so among the threads with the     *)
(* largest count SQLite may return any; with no row the function returns 0  *)
_find_primary_thread(dev) ==
    LET groups == {t \in {r.tid : r \in Range(runtime)} : LaunchCount(dev, t) > 0}
    IN  IF groups = {} THEN {0}
        ELSE {t \in groups : \A u \in groups : LaunchCount(dev, t) >= LaunchCount(dev, u)}

(* the kernel dict a scope keeps for a correlated kernel; corr names the    *)
(* kernel in the properties and is not stored by the code                   *)
KernelLeaf(k) ==
    [name |-> k.name, start |-> k.start, end |-> k.end, stream |-> k.stream,
     type |-> "kernel", children |-> <<>>, corr |-> k.corr]

(* the first loop of build_nvtx_tree: the projected entries; eid is the     *)
(* index of the NVTX row, read only by the properties                       *)
RECURSIVE TreeEntries(_, _, _, _, _)
TreeEntries(rows, i, rt_rows, kmap, window) ==
    IF i > Len(rows) THEN <<>>
    ELSE
      LET n  == rows[i]
          ks == Correlate(rt_rows, 1, n.start, n.end, kmap)
          gpu_start == SetMin({ks[j].start : j \in DOMAIN ks})
          gpu_end == SetMax({ks[j].end : j \in DOMAIN ks})
          rest == TreeEntries(rows, i + 1, rt_rows, kmap, window)
      IN  IF n.text = "" THEN rest
          ELSE IF ks = <<>> THEN rest
          ELSE IF gpu_end < window[1] \/ gpu_start > window[2] THEN rest
          ELSE <<[name |-> n.text, start |-> gpu_start, end |-> gpu_end,
                  cpu_start |-> n.start, cpu_end |-> n.end,
                  kernels |-> [j \in DOMAIN ks |-> KernelLeaf(ks[j])],
                  eid |-> i]>> \o rest

(* while stack and stack[-1]["cpu_end"] <= entry["cpu_start"]: stack.pop()  *)
(* on a stack of indices into entries                                       *)
RECURSIVE PopEnded(_, _, _)
PopEnded(entries, stack, cpu_start) ==
    IF stack # <<>> /\ entries[stack[Len(stack)]].cpu_end <= cpu_start
    THEN PopEnded(entries, SubSeq(stack, 1, Len(stack) - 1), cpu_start)
    ELSE stack

(* the nesting loop: parent[i] is the entry whose node entry i was appended *)
(* to, 0 when it was appended to roots                                      *)
RECURSIVE NestLoop(_, _, _, _)
NestLoop(entries, i, stack, parent) ==
    IF i > Len(entries) THEN parent
    ELSE LET stk == PopEnded(entries, stack, entries[i].cpu_start)
             par == IF stk # <<>> THEN stk[Len(stk)] ELSE 0
         IN  NestLoop(entries, i + 1, Append(stk, i), Append(parent, par))

(* the node of entry i once the loop is over: its kernels, then the nodes   *)
(* appended to it, in the order they were appended                          *)
RECURSIVE NodeOf(_, _, _)
NodeOf(entries, parent, i) ==
    LET kids == SelectSeq([j \in DOMAIN entries |-> j], LAMBDA j : parent[j] = i)
    IN  [name |-> entries[i].name, start |-> entries[i].start, end |-> entries[i].end,
         type |-> "nvtx", eid |-> entries[i].eid,
         children |-> entries[i].kernels
                      \o [j \in DOMAIN kids |-> NodeOf(entries, parent, kids[j])]]

NestedRoots(entries) ==
    LET parent == NestLoop(entries, 1, <<>>, <<>>)
        tops == SelectSeq([j \in DOMAIN entries |-> j], LAMBDA j : parent[j] = 0)
    IN  [j \in DOMAIN tops |-> NodeOf(entries, parent, tops[j])]

(* _collect_kernel_starts(node, starts): the start times it adds *)
RECURSIVE _collect_kernel_starts(_)
_collect_kernel_starts(node) ==
    UNION {IF node.children[j].type = "kernel"
           THEN {node.children[j].start}
           ELSE _collect_kernel_starts(node.children[j]) : j \in DOMAIN node.children}

(* which kernel children a node keeps, given the starts claimed below it *)
KeepsChild(c, child_kernel_starts) ==
    c.type # "kernel" \/ c.start \notin child_kernel_starts

(* _deduplicate_kernels(nodes) *)
RECURSIVE _deduplicate_kernels(_)
_deduplicate_kernels(nodes) ==
    [j \in DOMAIN nodes |->
        IF nodes[j].type # "nvtx" THEN nodes[j]
        ELSE LET node == nodes[j]
                 child_kernel_starts ==
                     UNION {IF node.children[c].type = "nvtx"
                            THEN _collect_kernel_starts(node.children[c])
                            ELSE {} : c \in DOMAIN node.children}
                 kept == SelectSeq(node.children,
                                   LAMBDA c : KeepsChild(c, child_kernel_starts))
             IN  [node EXCEPT !.children = _deduplicate_kernels(kept)]]

(* _sort_children(nodes) *)
RECURSIVE _sort_children(_)
_sort_children(nodes) ==
    [j \in DOMAIN nodes |->
        IF nodes[j].children # <<>>
        THEN [nodes[j] EXCEPT !.children = _sort_children(OrderByStart(nodes[j].children))]
        ELSE nodes[j]]

(* a load of the NVTX rows of every thread instead of the primary one *)
TreeScopesAllThreads(primary, window, pd) ==
    nvtx_events(Tids, <<window[1] - pd, window[2]>>)

(* the NVTX rows build_nvtx_tree loads for the primary thread *)
TreeScopes(primary, window, pd) == nvtx_events({primary}, <<window[1] - pd, window[2]>>)

(* build_nvtx_tree, for the primary thread the selector returned *)
build_nvtx_tree(dev, window, pd, primary) ==
    LET kmap == kernel_map(dev)
        rt_rows == runtime_rows(primary, <<window[1] - pd, window[2] + LookForward>>)
        entries == TreeEntries(TreeScopes(primary, window, pd), 1, rt_rows, kmap, window)
    IN  IF DOMAIN kmap = {} THEN <<>>
        ELSE IF primary = 0 THEN <<>>
        ELSE _sort_children(_deduplicate_kernels(NestedRoots(entries)))

----------------------------------------------------------------------------
(* overlap.py *)

Uppers == <<"A", "B", "C", "D", "E", "F", "G", "H", "I", "J", "K", "L", "M", "N", "O", "P", "Q", "R", "S", "T", "U", "V", "W", "X", "Y", "Z">>
Lowers == <<"a", "b", "c", "d", "e", "f", "g", "h", "i", "j", "k", "l", "m", "n", "o", "p", "q", "r", "s", "t", "u", "v", "w", "x", "y", "z">>

(* str.lower(), letter by letter *)
LowerChar(ch) ==
    IF \E i \in DOMAIN Uppers : Uppers[i] = ch
    THEN Lowers[CHOOSE i \in DOMAIN Uppers : Uppers[i] = ch]
    ELSE ch
Lower(str) == [i \in DOMAIN str |-> LowerChar(str[i])]

(* needle in hay *)
Contains(hay, needle) ==
    \E i \in 0..(Len(hay) - Len(needle)) : SubSeq(hay, i + 1, i + Len(needle)) = needle

(* NCCL_TYPES, in the insertion order a dict iterates in *)
NCCL_TYPES == <<
    [key |-> <<"A", "l", "l", "G", "a", "t", "h", "e", "r">>, label |-> "allgather"],
    [key |-> <<"R", "e", "d", "u", "c", "e", "S", "c", "a", "t", "t", "e", "r">>, label |-> "reducescatter"],
    [key |-> <<"A", "l", "l", "R", "e", "d", "u", "c", "e">>, label |-> "allreduce"],
    [key |-> <<"B", "r", "o", "a", "d", "c", "a", "s", "t">>, label |-> "broadcast"],
    [key |-> <<"S", "e", "n", "d", "R", "e", "c", "v">>, label |-> "sendrecv"],
    [key |-> <<"R", "e", "d", "u", "c", "e">>, label |-> "reduce"] >>

(* f"nccl_{label}" *)
NcclClass(label) ==
    CASE label = "allgather" -> "nccl_allgather"
      [] label = "reducescatter" -> "nccl_reducescatter"
      [] label = "allreduce" -> "nccl_allreduce"
      [] label = "broadcast" -> "nccl_broadcast"
      [] label = "sendrecv" -> "nccl_sendrecv"
      [] label = "reduce" -> "nccl_reduce"

(* the for loop of classify_kernel over NCCL_TYPES.items() from position i *)
RECURSIVE FirstType(_, _, _)
FirstType(types, i, name) ==
    IF i > Len(types) THEN "nccl_other"
    ELSE IF Contains(Lower(name), Lower(types[i].key)) THEN NcclClass(types[i].label)
    ELSE FirstType(types, i + 1, name)

(* a loop that tests the patterns from the last to the first *)
classify_kernel_reversed(name) ==
    IF Contains(Lower(name), <<"n", "c", "c", "l">>)
    THEN FirstType([i \in DOMAIN NCCL_TYPES |-> NCCL_TYPES[Len(NCCL_TYPES) + 1 - i]], 1, name)
    ELSE "compute"

classify_kernel(name) ==
    IF Contains(Lower(name), <<"n", "c", "c", "l">>)
    THEN FirstType(NCCL_TYPES, 1, name)
    ELSE "compute"

(* cls.startswith("nccl_") on the values classify_kernel returns *)
StartsWithNccl(cls) == cls # "compute"

(* prof.kernels(device, trim); trim = <<>> stands for None *)
kernels(dev, window) ==
    LET Keep(k) == /\ k.dev = dev
                   /\ (window # <<>> => (k.start >= window[1] /\ k.end <= window[2]))
    IN  OrderByStart(SelectSeq(kernel_tbl, Keep))

(* sorted(intervals) on <<start, end>> tuples *)
TupleLeq(x, y) == x[1] < y[1] \/ (x[1] = y[1] /\ x[2] <= y[2])

RECURSIVE InsertTuple(_, _)
InsertTuple(s, x) ==
    IF s = <<>> THEN <<x>>
    ELSE IF TupleLeq(s[Len(s)], x) THEN Append(s, x)
    ELSE Append(InsertTuple(SubSeq(s, 1, Len(s) - 1), x), s[Len(s)])

RECURSIVE SortedTuples(_)
SortedTuples(s) ==
    IF s = <<>> THEN <<>>
    ELSE InsertTuple(SortedTuples(SubSeq(s, 1, Len(s) - 1)), s[Len(s)])

Max2(a, b) == IF a >= b THEN a ELSE b
Min2(a, b) == IF a <= b THEN a ELSE b

(* the loop of _merge_intervals over sorted_iv[i..] *)
RECURSIVE MergeLoop(_, _, _)
MergeLoop(sorted_iv, i, merged) ==
    IF i > Len(sorted_iv) THEN merged
    ELSE LET last == merged[Len(merged)]
             cur == sorted_iv[i]
         IN  IF cur[1] <= last[2]
             THEN MergeLoop(sorted_iv, i + 1,
                            [merged EXCEPT ![Len(merged)] = <<last[1], Max2(last[2], cur[2])>>])
             ELSE MergeLoop(sorted_iv, i + 1, Append(merged, cur))

(* sorting without folding the overlapping intervals *)
_merge_intervals_unmerged(intervals) == SortedTuples(intervals)

_merge_intervals(intervals) ==
    IF intervals = <<>> THEN <<>>
    ELSE LET sorted_iv == SortedTuples(intervals)
         IN  MergeLoop(sorted_iv, 2, <<sorted_iv[1]>>)

RECURSIVE SumSeq(_)
SumSeq(s) == IF s = <<>> THEN 0 ELSE s[Len(s)] + SumSeq(SubSeq(s, 1, Len(s) - 1))

_total_covered(merged) == SumSeq([i \in DOMAIN merged |-> merged[i][2] - merged[i][1]])

(* while j < len(b) and b[j][1] <= a_start: j += 1   (j is 0-based) *)
RECURSIVE SkipEnded(_, _, _)
SkipEnded(b, j, a_start) ==
    IF j < Len(b) /\ b[j + 1][2] <= a_start THEN SkipEnded(b, j + 1, a_start) ELSE j

(* the inner while loop from k on: what it adds to total *)
RECURSIVE SweepFrom(_, _, _, _)
SweepFrom(b, k, a_start, a_end) ==
    IF k < Len(b) /\ b[k + 1][1] < a_end
    THEN LET overlap_start == Max2(a_start, b[k + 1][1])
             overlap_end == Min2(a_end, b[k + 1][2])
         IN  (IF overlap_start < overlap_end THEN overlap_end - overlap_start ELSE 0)
             + SweepFrom(b, k + 1, a_start, a_end)
    ELSE 0

(* the for loop of _intersection_coverage over a[i..], j carried along *)
RECURSIVE IntersectLoop(_, _, _, _)
IntersectLoop(a, b, i, j) ==
    IF i > Len(a) THEN 0
    ELSE LET j2 == SkipEnded(b, j, a[i][1])
         IN  SweepFrom(b, j2, a[i][1], a[i][2]) + IntersectLoop(a, b, i + 1, j2)

(* an inner "if" in place of the inner "while": only the first b interval *)
RECURSIVE IntersectFirstOnly(_, _, _, _)
IntersectFirstOnly(a, b, i, j) ==
    IF i > Len(a) THEN 0
    ELSE LET j2 == SkipEnded(b, j, a[i][1])
             first == IF j2 < Len(b) /\ b[j2 + 1][1] < a[i][2]
                      THEN Min2(a[i][2], b[j2 + 1][2]) - Max2(a[i][1], b[j2 + 1][1])
                      ELSE 0
         IN  first + IntersectFirstOnly(a, b, i + 1, j2)

_intersection_coverage_first_only(a, b) ==
    IF a = <<>> \/ b = <<>> THEN 0 ELSE IntersectFirstOnly(a, b, 1, 0)

_intersection_coverage(a, b) ==
    IF a = <<>> \/ b = <<>> THEN 0 ELSE IntersectLoop(a, b, 1, 0)

(* round(num / den, 1) in tenths, for num >= 0 and den > 0; an exact half   *)
(* goes to the even tenth                                                   *)
RoundTenths(num, den) ==
    LET q == (10 * num) \div den
        r == (10 * num) % den
    IN  IF 2 * r > den THEN q + 1
        ELSE IF 2 * r < den THEN q
        ELSE IF q % 2 = 0 THEN q ELSE q + 1

(* the return statement of overlap_analysis.  The record keeps the         *)
(* nanosecond quantities the dict is computed from (before the division by *)
(* 1e6 and round), idle_ns after max(0, .), and overlap_pct in tenths of a *)
(* percent                                                                 *)
OverlapReport(total_ns, compute_ns, nccl_ns, overlap_ns, n_compute, n_nccl) ==
    LET compute_only_ns == compute_ns - overlap_ns
        nccl_only_ns == nccl_ns - overlap_ns
        idle_ns == total_ns - compute_only_ns - nccl_only_ns - overlap_ns
    IN  [error |-> "",
         compute_only_ns |-> compute_only_ns,
         nccl_only_ns |-> nccl_only_ns,
         overlap_ns |-> overlap_ns,
         idle_raw_ns |-> idle_ns,
         idle_ns |-> Max2(0, idle_ns),
         total_ns |-> total_ns,
         compute_ns |-> compute_ns,
         nccl_ns |-> nccl_ns,
         overlap_pct |-> IF nccl_ns # 0 THEN RoundTenths(100 * overlap_ns, nccl_ns) ELSE 0,
         compute_kernels |-> n_compute,
         nccl_kernels |-> n_nccl]

(* overlap_analysis from the merged interval lists on *)
OverlapOfMerged(total_ns, compute_merged, nccl_merged, n_compute, n_nccl) ==
    OverlapReport(total_ns, _total_covered(compute_merged), _total_covered(nccl_merged),
                  _intersection_coverage(compute_merged, nccl_merged), n_compute, n_nccl)

(* an analysis whose span is taken over the compute kernels alone *)
OverlapOfIntervalsComputeSpan(ks, compute_intervals, nccl_intervals) ==
    OverlapOfMerged(IF compute_intervals = <<>> THEN 0
                    ELSE SetMax({compute_intervals[i][2] : i \in DOMAIN compute_intervals})
                         - SetMin({compute_intervals[i][1] : i \in DOMAIN compute_intervals}),
                    _merge_intervals(compute_intervals), _merge_intervals(nccl_intervals),
                    Len(compute_intervals), Len(nccl_intervals))

(* overlap_analysis from the two interval lists on *)
OverlapOfIntervals(ks, compute_intervals, nccl_intervals) ==
    OverlapOfMerged(SetMax({ks[i].end : i \in DOMAIN ks})
                        - SetMin({ks[i].start : i \in DOMAIN ks}),
                    _merge_intervals(compute_intervals), _merge_intervals(nccl_intervals),
                    Len(compute_intervals), Len(nccl_intervals))

(* the (start, end) pairs of the kernels of ks at the positions idx *)
IntervalsAt(ks, idx) == [i \in DOMAIN idx |-> <<ks[idx[i]].start, ks[idx[i]].end>>]

Positions(ks) == [i \in DOMAIN ks |-> i]

OverlapOfKernels(ks, cls) ==
    IF ks = <<>> THEN [error |-> "no kernels"]
    ELSE OverlapOfIntervals(
             ks,
             IntervalsAt(ks, SelectSeq(Positions(ks), LAMBDA i : ~ StartsWithNccl(cls[i]))),
             IntervalsAt(ks, SelectSeq(Positions(ks), LAMBDA i : StartsWithNccl(cls[i]))))

ClassesOf(ks) == [i \in DOMAIN ks |-> classify_kernel(ks[i].name)]

overlap_analysis(dev, window) ==
    OverlapOfKernels(kernels(dev, window), ClassesOf(kernels(dev, window)))

(* the keys of by_type in insertion order: the classes of the kernels in   *)
(* order of first appearance                                               *)
RECURSIVE TypesInOrder(_, _)
TypesInOrder(cls, seen) ==
    IF cls = <<>> THEN seen
    ELSE IF \E i \in DOMAIN seen : seen[i] = Head(cls)
         THEN TypesInOrder(Tail(cls), seen)
         ELSE TypesInOrder(Tail(cls), Append(seen, Head(cls)))

(* by_type[ctype]: the durations of the kernels of one class *)
DursOf(ks, cls, ctype) ==
    LET idx == SelectSeq(Positions(ks), LAMBDA i : cls[i] = ctype)
    IN  [i \in DOMAIN idx |-> ks[idx[i]].end - ks[idx[i]].start]

(* sorted(by_type.items(), key=lambda x: -sum(x[1])): a stable sort of      *)
(* [ctype, durs] items                                                      *)
RECURSIVE InsertBySumDesc(_, _)
InsertBySumDesc(s, x) ==
    IF s = <<>> THEN <<x>>
    ELSE IF - SumSeq(Head(s).durs) <= - SumSeq(x.durs)
         THEN <<Head(s)>> \o InsertBySumDesc(Tail(s), x)
         ELSE <<x>> \o s

RECURSIVE SortedBySumDesc(_)
SortedBySumDesc(s) ==
    IF s = <<>> THEN <<>>
    ELSE InsertBySumDesc(SortedBySumDesc(SubSeq(s, 1, Len(s) - 1)), s[Len(s)])

(* ctype.replace("nccl_", "") for the classes classify_kernel returns *)
TypeLabel(ctype) ==
    IF \E i \in DOMAIN NCCL_TYPES : NcclClass(NCCL_TYPES[i].label) = ctype
    THEN NCCL_TYPES[CHOOSE i \in DOMAIN NCCL_TYPES : NcclClass(NCCL_TYPES[i].label) = ctype].label
    ELSE "other"

(* the dict appended for one type; durations are kept in ns before the      *)
(* division and round (avg_ms is total / count), pct in tenths of a percent *)
BreakdownEntry(item, total_nccl_ns) ==
    [type |-> TypeLabel(item.ctype),
     count |-> Len(item.durs),
     total_ns |-> SumSeq(item.durs),
     min_ns |-> SetMin(Range(item.durs)),
     max_ns |-> SetMax(Range(item.durs)),
     pct |-> RoundTenths(100 * SumSeq(item.durs), total_nccl_ns)]

(* the loop over the sorted items: 100 * total / total_nccl_ns raises       *)
(* ZeroDivisionError on the first item when total_nccl_ns is 0              *)
BreakdownOfItems(items, total_nccl_ns) ==
    IF total_nccl_ns = 0 THEN [error |-> "ZeroDivisionError"]
    ELSE [error |-> "",
          rows |-> [i \in DOMAIN items |-> BreakdownEntry(items[i], total_nccl_ns)]]

(* nccl_breakdown from nccl_kernels and their classes on *)
BreakdownOfKernels(nccl_kernels, cls) ==
    IF nccl_kernels = <<>> THEN [error |-> "", rows |-> <<>>]
    ELSE BreakdownOfItems(
             SortedBySumDesc([i \in DOMAIN TypesInOrder(cls, <<>>) |->
                 [ctype |-> TypesInOrder(cls, <<>>)[i],
                  durs |-> DursOf(nccl_kernels, cls, TypesInOrder(cls, <<>>)[i])]]),
             SumSeq([i \in DOMAIN nccl_kernels |-> nccl_kernels[i].end - nccl_kernels[i].start]))

(* nccl_kernels = [k for k in kernels if classify_kernel(...).startswith("nccl_")] *)
NcclKernels(ks) == SelectSeq(ks, LAMBDA k : StartsWithNccl(classify_kernel(k.name)))

nccl_breakdown(dev, window) ==
    BreakdownOfKernels(NcclKernels(kernels(dev, window)),
                       ClassesOf(NcclKernels(kernels(dev, window))))

(* text LIKE '%marker%' on the NVTX texts of the model, which are told      *)
(* apart as wholes: the empty marker matches every text, any other marker  *)
(* the text equal to it                                                    *)
Like(text, mark) == mark = "" \/ text = mark

(* the pri_nvtx query of detect_iterations *)
MarkerRows(primary, window, mark) ==
    LET Keep(n) == /\ Like(n.text, mark)
                   /\ n.end > n.start
                   /\ n.tid = primary
                   /\ n.start >= window[1] - IterationPad /\ n.start <= window[2]
    IN  OrderByStart(SelectSeq(nvtx, Keep))

(* the filter to non-overlapping markers, from row i on *)
RECURSIVE KeepLoop(_, _, _)
KeepLoop(rows, i, last_end) ==
    IF i > Len(rows) THEN <<>>
    ELSE IF rows[i].start >= last_end
         THEN <<rows[i]>> \o KeepLoop(rows, i + 1, rows[i].end)
         ELSE KeepLoop(rows, i + 1, last_end)

(* a filter that keeps every marker row *)
KeptMarkersAll(rows) == rows

(* iterations, as left by the loop that starts from last_end = 0 *)
KeptMarkers(rows) == KeepLoop(rows, 1, 0)

(* the rt_all query of detect_iterations: every launch call of the thread *)
AllRuntimeRows(tid) == OrderByStart(SelectSeq(runtime, LAMBDA r : r.tid = tid))

(* a count that looks for "nccl" in the name as it is spelled *)
NcclCountAsSpelled(ks) ==
    Len(SelectSeq(ks, LAMBDA k : Contains(k.name, <<"n", "c", "c", "l">>)))

(* sum(1 for k in kernels_in_iter if "nccl" in k["name"].lower()) *)
NcclCount(ks) ==
    Len(SelectSeq(ks, LAMBDA k : Contains(Lower(k.name), <<"n", "c", "c", "l">>)))

(* the dict appended for iteration i (0-based) with kernels ks; the times   *)
(* are kept in the unit of the store, before the division and round         *)
IterationEntry(i, ks) ==
    [iteration |-> i,
     gpu_start |-> SetMin({ks[j].start : j \in DOMAIN ks}),
     gpu_end |-> SetMax({ks[j].end : j \in DOMAIN ks}),
     duration |-> SetMax({ks[j].end : j \in DOMAIN ks})
                    - SetMin({ks[j].start : j \in DOMAIN ks}),
     compute |-> SumSeq([j \in DOMAIN ks |-> ks[j].end - ks[j].start]),
     kernel_count |-> Len(ks),
     nccl_count |-> NcclCount(ks)]

(* the result of the loop body for one kept marker and its kernels *)
IterationOut(i, ks) == IF ks = <<>> THEN <<>> ELSE <<IterationEntry(i, ks)>>

(* for i, it in enumerate(iterations), from position i (1-based) on *)
RECURSIVE IterationLoop(_, _, _, _)
IterationLoop(kept, i, rt_all, kmap) ==
    IF i > Len(kept) THEN <<>>
    ELSE IterationOut(i - 1, Correlate(rt_all, 1, kept[i].start, kept[i].end, kmap))
         \o IterationLoop(kept, i + 1, rt_all, kmap)

(* the rest of detect_iterations once the markers are filtered *)
IterationsOf(kept, primary, kmap) ==
    [iterations |-> kept,
     results |-> IF kept = <<>> THEN <<>>
                 ELSE IterationLoop(kept, 1, AllRuntimeRows(primary), kmap)]

(* detect_iterations with an explicit trim, for the primary thread the      *)
(* selector returned: the markers kept and the list returned                *)
detect_iterations(dev, window, mark, primary) ==
    IF DOMAIN kernel_map(dev) = {} THEN [iterations |-> <<>>, results |-> <<>>]
    ELSE IterationsOf(KeptMarkers(MarkerRows(primary, window, mark)), primary,
                      kernel_map(dev))

----------------------------------------------------------------------------
(* ai/analyzer.py *)

IsNvtx(c) == c.type = "nvtx"
IsKernel(c) == c.type = "kernel"

(* the stats dict convergence_report starts from *)
ZeroStats ==
    [total_nvtx |-> 0, total_kernels |-> 0, converged |-> 0, unconverged |-> 0,
     mapped_kernels |-> 0, unmapped_kernels |-> 0]

(* updates that count a kernel of a multi-kernel leaf once per leaf *)
CountScopePerLeaf(stats, nvtx_children, kern_children) ==
    LET counted == [stats EXCEPT !.total_nvtx = @ + 1]
    IN  IF nvtx_children = <<>>
        THEN IF Len(kern_children) = 1
             THEN [counted EXCEPT !.converged = @ + 1, !.mapped_kernels = @ + 1]
             ELSE IF Len(kern_children) > 1
             THEN [counted EXCEPT !.unconverged = @ + 1, !.unmapped_kernels = @ + 1]
             ELSE counted
        ELSE counted

(* the updates _convergence_walk makes for one node that is not a kernel *)
CountScope(stats, nvtx_children, kern_children) ==
    LET counted == [stats EXCEPT !.total_nvtx = @ + 1]
    IN  IF nvtx_children = <<>>
        THEN IF Len(kern_children) = 1
             THEN [counted EXCEPT !.converged = @ + 1, !.mapped_kernels = @ + 1]
             ELSE IF Len(kern_children) > 1
             THEN [counted EXCEPT !.unconverged = @ + 1,
                                  !.unmapped_kernels = @ + Len(kern_children)]
             ELSE counted
        ELSE counted

(* _convergence_walk(nodes, stats): the stats dict after the walk; a node   *)
(* without a "children" key has children <<>>                              *)
RECURSIVE _convergence_walk(_, _)
_convergence_walk(nodes, stats) ==
    IF nodes = <<>> THEN stats
    ELSE IF Head(nodes).type = "kernel" THEN _convergence_walk(Tail(nodes), stats)
    ELSE _convergence_walk(
             Tail(nodes),
             _convergence_walk(
                 SelectSeq(Head(nodes).children, IsNvtx),
                 CountScope(stats, SelectSeq(Head(nodes).children, IsNvtx),
                            SelectSeq(Head(nodes).children, IsKernel))))

(* a return statement that reports the total_kernels entry of stats *)
ReportOfStatsTotal(stats) ==
    [error |-> "",
     total_nvtx |-> stats.total_nvtx,
     total_kernels |-> stats.total_kernels,
     converged_nvtx |-> stats.converged,
     unconverged_nvtx |-> stats.unconverged,
     coverage_pct |-> IF stats.total_kernels # 0
                      THEN RoundTenths(100 * stats.mapped_kernels, stats.total_kernels)
                      ELSE 0,
     mapped_kernels |-> stats.mapped_kernels,
     unmapped_kernels |-> stats.unmapped_kernels]

(* the return statement of convergence_report; coverage_pct is in tenths of *)
(* a percent                                                                *)
ReportOf(stats) ==
    LET total == stats.mapped_kernels + stats.unmapped_kernels
    IN  [error |-> "",
         total_nvtx |-> stats.total_nvtx,
         total_kernels |-> total,
         converged_nvtx |-> stats.converged,
         unconverged_nvtx |-> stats.unconverged,
         coverage_pct |-> IF total # 0 THEN RoundTenths(100 * stats.mapped_kernels, total)
                          ELSE 0,
         mapped_kernels |-> stats.mapped_kernels,
         unmapped_kernels |-> stats.unmapped_kernels]

convergence_report(nodes) == ReportOf(_convergence_walk(nodes, ZeroStats))

(* node.get("duration_ms", 0) *)
DurationMs(node) == IF "duration_ms" \in DOMAIN node THEN node.duration_ms ELSE 0

(* [k["name"] for k in kern_children] *)
NamesOf(kern_children) == [i \in DOMAIN kern_children |-> kern_children[i].name]

(* the dict _walk appends for a leaf NVTX node *)
LeafTarget(node, depth, kern_children) ==
    [name |-> node.name, depth |-> depth, duration_ms |-> DurationMs(node),
     kernel_count |-> Len(kern_children), kernels |-> NamesOf(kern_children)]

(* the dict _walk appends for a node with both NVTX and kernel children *)
MixedTarget(node, depth, kern_children) ==
    [name |-> node.name, depth |-> depth, duration_ms |-> DurationMs(node),
     kernel_count |-> Len(kern_children), kernels |-> NamesOf(kern_children),
     note |-> "mixed: has both NVTX sub-ranges and uncovered kernels"]

(* the appends _walk makes for one NVTX node *)
WalkNode(node, found, limit, depth, nvtx_children, kern_children) ==
    IF Len(kern_children) > limit
    THEN IF nvtx_children = <<>>
         THEN Append(found, LeafTarget(node, depth, kern_children))
         ELSE Append(found, MixedTarget(node, depth, kern_children))
    ELSE found

(* _walk(nodes, targets, max_kernels, depth): the targets list after the walk *)
RECURSIVE _walk(_, _, _, _)
_walk(nodes, found, limit, depth) ==
    IF nodes = <<>> THEN found
    ELSE IF Head(nodes).type # "nvtx" THEN _walk(Tail(nodes), found, limit, depth)
    ELSE _walk(Tail(nodes),
               _walk(SelectSeq(Head(nodes).children, IsNvtx),
                     WalkNode(Head(nodes), found, limit, depth,
                              SelectSeq(Head(nodes).children, IsNvtx),
                              SelectSeq(Head(nodes).children, IsKernel)),
                     limit, depth + 1),
               limit, depth)

(* sorted(targets, key=lambda t: -t["kernel_count"]): a stable sort, so x   *)
(* goes behind every element whose key is not larger                        *)
RECURSIVE InsertByCountDesc(_, _)
InsertByCountDesc(s, x) ==
    IF s = <<>> THEN <<x>>
    ELSE IF - Head(s).kernel_count <= - x.kernel_count
         THEN <<Head(s)>> \o InsertByCountDesc(Tail(s), x)
         ELSE <<x>> \o s

RECURSIVE SortedByCountDesc(_)
SortedByCountDesc(s) ==
    IF s = <<>> THEN <<>>
    ELSE InsertByCountDesc(SortedByCountDesc(SubSeq(s, 1, Len(s) - 1)), s[Len(s)])

(* the targets in the order the walk found them *)
find_refinement_targets_unsorted(nodes, limit) == _walk(nodes, <<>>, limit, 0)

find_refinement_targets(nodes, limit) == SortedByCountDesc(_walk(nodes, <<>>, limit, 0))

----------------------------------------------------------------------------
(* agent/loop.py *)

(* the skill names the keyword map refers to, letter by letter *)
Skill == [
    top_kernels |-> <<"t", "o", "p", "_", "k", "e", "r", "n", "e", "l", "s">>,
    kernel_launch_overhead |-> <<"k", "e", "r", "n", "e", "l", "_", "l", "a", "u", "n", "c", "h", "_", "o", "v", "e", "r", "h", "e", "a", "d">>,
    gpu_idle_gaps |-> <<"g", "p", "u", "_", "i", "d", "l", "e", "_", "g", "a", "p", "s">>,
    memory_transfers |-> <<"m", "e", "m", "o", "r", "y", "_", "t", "r", "a", "n", "s", "f", "e", "r", "s">>,
    nccl_breakdown |-> <<"n", "c", "c", "l", "_", "b", "r", "e", "a", "k", "d", "o", "w", "n">>,
    nvtx_kernel_map |-> <<"n", "v", "t", "x", "_", "k", "e", "r", "n", "e", "l", "_", "m", "a", "p">>,
    thread_utilization |-> <<"t", "h", "r", "e", "a", "d", "_", "u", "t", "i", "l", "i", "z", "a", "t", "i", "o", "n">>,
    schema_inspect |-> <<"s", "c", "h", "e", "m", "a", "_", "i", "n", "s", "p", "e", "c", "t">>]

(* Agent._KEYWORD_MAP, in the insertion order a dict iterates in *)
_KEYWORD_MAP == <<
    [keyword |-> <<"k", "e", "r", "n", "e", "l">>,
     skill_names |-> <<Skill.top_kernels, Skill.kernel_launch_overhead>>],
    [keyword |-> <<"h", "o", "t", "s", "p", "o", "t">>,
     skill_names |-> <<Skill.top_kernels>>],
    [keyword |-> <<"s", "l", "o", "w">>,
     skill_names |-> <<Skill.top_kernels, Skill.gpu_idle_gaps>>],
    [keyword |-> <<"b", "u", "b", "b", "l", "e">>,
     skill_names |-> <<Skill.gpu_idle_gaps>>],
    [keyword |-> <<"i", "d", "l", "e">>,
     skill_names |-> <<Skill.gpu_idle_gaps>>],
    [keyword |-> <<"g", "a", "p">>,
     skill_names |-> <<Skill.gpu_idle_gaps>>],
    [keyword |-> <<"s", "t", "a", "l", "l">>,
     skill_names |-> <<Skill.gpu_idle_gaps>>],
    [keyword |-> <<"m", "e", "m", "o", "r", "y">>,
     skill_names |-> <<Skill.memory_transfers>>],
    [keyword |-> <<"t", "r", "a", "n", "s", "f", "e", "r">>,
     skill_names |-> <<Skill.memory_transfers>>],
    [keyword |-> <<"h", "2", "d">>,
     skill_names |-> <<Skill.memory_transfers>>],
    [keyword |-> <<"c", "o", "p", "y">>,
     skill_names |-> <<Skill.memory_transfers>>],
    [keyword |-> <<"n", "c", "c", "l">>,
     skill_names |-> <<Skill.nccl_breakdown>>],
    [keyword |-> <<"a", "l", "l", "r", "e", "d", "u", "c", "e">>,
     skill_names |-> <<Skill.nccl_breakdown>>],
    [keyword |-> <<"c", "o", "l", "l", "e", "c", "t", "i", "v", "e">>,
     skill_names |-> <<Skill.nccl_breakdown>>],
    [keyword |-> <<"d", "i", "s", "t", "r", "i", "b", "u", "t", "e", "d">>,
     skill_names |-> <<Skill.nccl_breakdown>>],
    [keyword |-> <<"m", "u", "l", "t", "i", "-", "g", "p", "u">>,
     skill_names |-> <<Skill.nccl_breakdown>>],
    [keyword |-> <<"n", "v", "t", "x">>,
     skill_names |-> <<Skill.nvtx_kernel_map>>],
    [keyword |-> <<"s", "o", "u", "r", "c", "e">>,
     skill_names |-> <<Skill.nvtx_kernel_map>>],
    [keyword |-> <<"a", "t", "t", "r", "i", "b", "u", "t", "i", "o", "n">>,
     skill_names |-> <<Skill.nvtx_kernel_map>>],
    [keyword |-> <<"m", "a", "p", "p", "i", "n", "g">>,
     skill_names |-> <<Skill.nvtx_kernel_map>>],
    [keyword |-> <<"l", "a", "u", "n", "c", "h">>,
     skill_names |-> <<Skill.kernel_launch_overhead>>],
    [keyword |-> <<"o", "v", "e", "r", "h", "e", "a", "d">>,
     skill_names |-> <<Skill.kernel_launch_overhead>>],
    [keyword |-> <<"c", "p", "u">>,
     skill_names |-> <<Skill.thread_utilization>>],
    [keyword |-> <<"t", "h", "r", "e", "a", "d">>,
     skill_names |-> <<Skill.thread_utilization>>],
    [keyword |-> <<"u", "t", "i", "l", "i", "z", "a", "t", "i", "o", "n">>,
     skill_names |-> <<Skill.thread_utilization>>],
    [keyword |-> <<"s", "c", "h", "e", "m", "a">>,
     skill_names |-> <<Skill.schema_inspect>>],
    [keyword |-> <<"t", "a", "b", "l", "e">>,
     skill_names |-> <<Skill.schema_inspect>>],
    [keyword |-> <<"m", "f", "u">>,
     skill_names |-> <<Skill.top_kernels>>],
    [keyword |-> <<"f", "l", "o", "p", "s">>,
     skill_names |-> <<Skill.top_kernels>>],
    [keyword |-> <<"i", "t", "e", "r", "a", "t", "i", "o", "n">>,
     skill_names |-> <<Skill.top_kernels, Skill.gpu_idle_gaps, Skill.nvtx_kernel_map>>],
    [keyword |-> <<"i", "t", "e", "r">>,
     skill_names |-> <<Skill.top_kernels, Skill.gpu_idle_gaps, Skill.nvtx_kernel_map>>],
    [keyword |-> <<"l", "a", "t", "e", "n", "c", "y">>,
     skill_names |-> <<Skill.kernel_launch_overhead, Skill.gpu_idle_gaps>>],
    [keyword |-> <<"b", "o", "t", "t", "l", "e", "n", "e", "c", "k">>,
     skill_names |-> <<Skill.top_kernels, Skill.gpu_idle_gaps, Skill.thread_utilization>>],
    [keyword |-> <<"c", "o", "m", "m", "u", "n", "i", "c", "a", "t", "i", "o", "n">>,
     skill_names |-> <<Skill.nccl_breakdown>>],
    [keyword |-> <<"b", "a", "n", "d", "w", "i", "d", "t", "h">>,
     skill_names |-> <<Skill.memory_transfers>>]
    >>

(* the characters of the model in the order of their code points *)
CodePoints == <<" ", "-", "2", "?">> \o Uppers \o <<"_">> \o Lowers
Ord(ch) == CHOOSE i \in DOMAIN CodePoints : CodePoints[i] = ch

(* a < b on str: the first differing character decides, a prefix is smaller *)
RECURSIVE StrLess(_, _)
StrLess(a, b) ==
    IF b = <<>> THEN FALSE
    ELSE IF a = <<>> THEN TRUE
    ELSE IF Head(a) # Head(b) THEN Ord(Head(a)) < Ord(Head(b))
    ELSE StrLess(Tail(a), Tail(b))

(* sorted(selected) on a set of str *)
RECURSIVE SortedStrings(_)
SortedStrings(selected) ==
    IF selected = {} THEN <<>>
    ELSE LET least == CHOOSE x \in selected :
                          \A y \in selected \ {x} : StrLess(x, y)
         IN  <<least>> \o SortedStrings(selected \ {least})

(* the loop of _select_skills over _KEYWORD_MAP.items() *)
RECURSIVE SelectLoop(_, _, _)
SelectLoop(q_lower, i, selected) ==
    IF i > Len(_KEYWORD_MAP) THEN selected
    ELSE SelectLoop(q_lower, i + 1,
                    IF Contains(q_lower, _KEYWORD_MAP[i].keyword)
                    THEN selected \cup Range(_KEYWORD_MAP[i].skill_names)
                    ELSE selected)

(* a selection that looks the keywords up in the question as it was typed *)
_select_skills_as_typed(q) == SortedStrings(SelectLoop(q, 1, {}))

(* Agent._select_skills(question) *)
_select_skills(q) == SortedStrings(SelectLoop(Lower(q), 1, {}))

(* the skills Agent.ask runs: the selected ones, or the two overview skills *)
(* when no keyword matched                                                  *)
SkillsOfAsk(q) ==
    IF _select_skills(q) = <<>> THEN <<Skill.top_kernels, Skill.gpu_idle_gaps>>
    ELSE _select_skills(q)

(* the dicts _try_llm_synthesis appends; the user content stands for the    *)
(* evidence followed by the question, the assistant content for the text    *)
(* the LLM returned                                                         *)
UserMessage(q) == [role |-> "user", content |-> q]
AssistantMessage == [role |-> "assistant", content |-> <<"o", "k">>]

(* how a call of _try_llm_synthesis can go: anthropic missing or no API     *)
(* key (returns None); an exception while the prompt or the client is       *)
(* built; an exception from messages.create or from reading its result;     *)
(* an answer                                                                *)
LlmOutcomes == {"no_llm", "fails_before_append", "fails_in_create", "answers"}

(* self._conversation after _try_llm_synthesis *)
_try_llm_synthesis(history, q, outcome) ==
    CASE outcome = "no_llm" -> history
      [] outcome = "fails_before_append" -> history
      [] outcome = "fails_in_create" -> Append(history, UserMessage(q))
      [] outcome = "answers" -> history \o <<UserMessage(q), AssistantMessage>>

(* Agent.has_conversation *)
has_conversation(history) == Len(history) > 0

(* self._conversation after reset_conversation *)
reset_conversation(history) == <<>>

----------------------------------------------------------------------------
(* search.py *)

(* pad = int(5e9), the default of build_nvtx_tree, is 2.5 units; on the     *)
(* whole timestamps of the model start >= t[0] - 2.5 is start >= t[0] - 2   *)
DefaultPad == 2

(* the characters of an NVTX text of the store *)
TextChars(text) ==
    CASE text = "fwd" -> <<"f", "w", "d">>
      [] text = "" -> <<>>

(* node["name"] as a str: kernel names are kept letter by letter *)
NameChars(node) == IF node.type = "kernel" THEN node.name ELSE TextChars(node.name)

(* " > ".join(names) *)
RECURSIVE JoinPath(_)
JoinPath(names) ==
    IF names = <<>> THEN <<>>
    ELSE IF Len(names) = 1 THEN names[1]
    ELSE names[1] \o <<" ", ">", " ">> \o JoinPath(Tail(names))

(* the dict _walk_hierarchy appends for a kernel; corr names the kernel in  *)
(* the properties and is not stored by the code                             *)
HierarchyResult(node, current_path) ==
    [name |-> node.name, start |-> node.start, end |-> node.end,
     duration_ns |-> node.end - node.start,
     stream |-> IF "stream" \in DOMAIN node THEN node.stream ELSE -1,
     nvtx_path |-> JoinPath(SubSeq(current_path, 1, Len(current_path) - 1)),
     corr |-> node.corr]

(* _walk_hierarchy(nodes, parent_pat, child_pat, path, results): the dicts  *)
(* it appends to results, in order                                          *)
RECURSIVE _walk_hierarchy(_, _, _, _)
_walk_hierarchy(nodes, parent_pat, child_pat, path) ==
    IF nodes = <<>> THEN <<>>
    ELSE
      LET node == Head(nodes)
          current_path == Append(path, NameChars(node))
          in_parent == \E i \in DOMAIN current_path :
                           Contains(Lower(current_path[i]), parent_pat)
          here == IF node.type = "kernel"
                  THEN IF in_parent /\ Contains(Lower(node.name), child_pat)
                       THEN <<HierarchyResult(node, current_path)>>
                       ELSE <<>>
                  ELSE IF node.children # <<>>
                       THEN _walk_hierarchy(node.children, parent_pat, child_pat,
                                            current_path)
                       ELSE <<>>
      IN  here \o _walk_hierarchy(Tail(nodes), parent_pat, child_pat, path)

(* search_hierarchy, on the tree build_nvtx_tree returned *)
search_hierarchy(built, parent_pattern_arg, child_pattern_arg) ==
    _walk_hierarchy(built, Lower(parent_pattern_arg), Lower(child_pattern_arg), <<>>)

----------------------------------------------------------------------------
(* The event store and the arguments the operations are called with *)

ScopeRows == {r \in [text : Texts, tid : Tids, start : 0..MaxT, end : 0..MaxT] :
                r.end > r.start}

LaunchRows == {r \in [tid : Tids, start : 0..MaxT, end : 0..MaxT] :
                 (r.end - r.start) \in LaunchDurs}

GemmName == <<"g", "e", "m", "m">>

(* what a launch may be correlated to: no kernel row, a kernel on another  *)
(* device, or a kernel on device 0                                         *)
NoKernel == [dev |-> -1]
KernelChoices ==
    {NoKernel, [dev |-> 1, start |-> 0, end |-> 1]}
    \cup {[dev |-> 0, start |-> sp[1], end |-> sp[2]] : sp \in KernelSpans}

KernelRows(choice) ==
    LET present == SelectSeq([i \in DOMAIN choice |-> i], LAMBDA i : choice[i] # NoKernel)
    IN  [j \in DOMAIN present |->
            [corr |-> present[j], dev |-> choice[present[j]].dev,
             start |-> choice[present[j]].start, end |-> choice[present[j]].end,
             name |-> GemmName, stream |-> 7]]

(* <<trim, pad>>: a window that cuts the look-forward, two that cut the    *)
(* look-back and the GPU side, and one that cuts nothing                   *)
WindowArgs == {<< <<0, 0>>, 0 >>, << <<2, MaxT>>, 1 >>,
               << <<2, MaxT>>, 2 >>, << <<0, MaxT>>, 0 >>}

(* tables as SQLite returns them under ORDER BY start: ties in any order *)
NvtxTable ==
    nvtx \in {s \in UNION {[1..k -> ScopeRows] : k \in ScopeCounts} : SortedByStart(s)}

(* the launch calls, correlationId = row number, and the kernels they launched *)
LaunchTables ==
    \E ls \in {s \in UNION {[1..k -> LaunchRows] : k \in LaunchCounts} : SortedByStart(s)} :
        /\ runtime = [i \in DOMAIN ls |->
                        [tid |-> ls[i].tid, start |-> ls[i].start,
                         end |-> ls[i].end, corr |-> i]]
        /\ \E choice \in [DOMAIN ls -> KernelChoices] :
               kernel_tbl = KernelRows(choice)

TraceStore == NvtxTable /\ LaunchTables

TraceArgs ==
    /\ device = 0
    /\ \E wa \in WindowArgs : trim = wa[1] /\ pad = wa[2]

TraceIdle ==
    /\ primary_tid = 0
    /\ roots = <<>>
    /\ results = <<>>

OverlapIdle ==
    /\ kname = <<>>
    /\ kclass = ""
    /\ ov = [error |-> "not called"]

ConvIdle ==
    /\ tree_roots = <<>>
    /\ report = [error |-> "not called"]

TargetIdle ==
    /\ max_kernels = 1
    /\ targets = <<>>

IterIdle ==
    /\ marker = ""
    /\ iterations = <<>>
    /\ iter_results = <<>>

BreakdownIdle == breakdown = [error |-> "not called"]

CallIdle ==
    /\ depth_stacks = <<>>
    /\ depth_stacks_before = <<>>
    /\ calls = 0

FrameIdle ==
    /\ roots_before = <<>>
    /\ removed = 0

ChatIdle ==
    /\ conversation = <<>>
    /\ asks = 0

AgentIdle ==
    /\ question = <<>>
    /\ selected_skills = <<>>

SearchIdle ==
    /\ parent_pattern = <<>>
    /\ child_pattern = <<>>
    /\ hierarchy = <<>>

RestIdle ==
    /\ TargetIdle /\ IterIdle /\ BreakdownIdle /\ CallIdle /\ FrameIdle
    /\ AgentIdle /\ SearchIdle /\ ChatIdle

----------------------------------------------------------------------------
(* SpecProj: project_nvtx called on an event store *)

InitProj ==
    /\ TraceStore
    /\ TraceArgs
    /\ TraceIdle
    /\ OverlapIdle
    /\ ConvIdle
    /\ RestIdle
    /\ pc = "call"

ProjectNvtx ==
    /\ pc = "call"
    /\ results' = project_nvtx(device, trim, pad)
    /\ pc' = "done"
    /\ UNCHANGED <<storeVars, argVars, primary_tid, roots, overlapVars, convVars, restVars>>

NextProj == ProjectNvtx

SpecProj == InitProj /\ [][NextProj]_vars

EmptyStore ==
    /\ nvtx = <<>>
    /\ runtime = <<>>
    /\ kernel_tbl = <<>>

NoArgs ==
    /\ device = 0
    /\ trim = <<>>
    /\ pad = 0

----------------------------------------------------------------------------
(* SpecClassify: classify_kernel called on a kernel name *)

Fragments == {
    <<"n", "c", "c", "l">>,
    <<"N", "C", "C", "L">>,
    <<"A", "l", "l", "G", "a", "t", "h", "e", "r">>,
    <<"R", "e", "d", "u", "c", "e", "S", "c", "a", "t", "t", "e", "r">>,
    <<"A", "l", "l", "R", "e", "d", "u", "c", "e">>,
    <<"B", "r", "o", "a", "d", "c", "a", "s", "t">>,
    <<"S", "e", "n", "d", "R", "e", "c", "v">>,
    <<"R", "e", "d", "u", "c", "e">>,
    <<"a", "l", "l", "r", "e", "d", "u", "c", "e">>,
    <<"A", "l", "l">>,
    <<"S", "c", "a", "t", "t", "e", "r">>,
    <<"K", "e", "r", "n", "e", "l">>,
    <<"_">>,
    <<"g", "e", "m", "m">> }

RECURSIVE Concat(_)
Concat(parts) == IF parts = <<>> THEN <<>> ELSE parts[1] \o Concat(Tail(parts))

KernelNames == {Concat(parts) : parts \in UNION {[1..k -> Fragments] : k \in 0..MaxFragments}}

InitClassify ==
    /\ EmptyStore
    /\ NoArgs
    /\ TraceIdle
    /\ kname \in KernelNames
    /\ kclass = ""
    /\ ov = [error |-> "not called"]
    /\ ConvIdle
    /\ RestIdle
    /\ pc = "call"

ClassifyKernel ==
    /\ pc = "call"
    /\ kclass' = classify_kernel(kname)
    /\ pc' = "done"
    /\ UNCHANGED <<storeVars, argVars, traceOut, kname, ov, convVars, restVars>>

NextClassify == ClassifyKernel

SpecClassify == InitClassify /\ [][NextClassify]_vars

----------------------------------------------------------------------------
(* SpecOverlap: overlap_analysis called on the kernels of a device *)

AllReduceName == <<"n", "c", "c", "l", "A", "l", "l", "R", "e", "d", "u", "c", "e">>

(* the numbers of kernels on the device *)
KernelCounts == 0..3

OverlapRows == {r \in [start : 0..MaxKT, end : 0..MaxKT, name : {GemmName, AllReduceName}] :
                  r.end >= r.start}

KernelTable(rows) ==
    [i \in DOMAIN rows |->
        [corr |-> i, dev |-> 0, start |-> rows[i].start, end |-> rows[i].end,
         name |-> rows[i].name, stream |-> 7]]

(* the scenario of the specification: compute kernels [0,10], [10,20],     *)
(* [25,30] and one collective kernel [5,15]                                *)
Scenario == KernelTable(<<
    [start |-> 0, end |-> 10, name |-> GemmName],
    [start |-> 5, end |-> 15, name |-> AllReduceName],
    [start |-> 10, end |-> 20, name |-> GemmName],
    [start |-> 25, end |-> 30, name |-> GemmName] >>)

InitOverlap ==
    /\ nvtx = <<>>
    /\ runtime = <<>>
    /\ \/ /\ \E rows \in {s \in UNION {[1..k -> OverlapRows] : k \in KernelCounts} :
                             SortedByStart(s)} :
                 kernel_tbl = KernelTable(rows)
          /\ trim \in {<<>>, <<1, MaxKT>>}
       \/ /\ kernel_tbl = Scenario
          /\ trim = <<>>
    /\ device = 0
    /\ pad = 0
    /\ TraceIdle
    /\ OverlapIdle
    /\ ConvIdle
    /\ RestIdle
    /\ pc = "call"

OverlapAnalysis ==
    /\ pc = "call"
    /\ ov' = overlap_analysis(device, trim)
    /\ pc' = "done"
    /\ UNCHANGED <<storeVars, argVars, traceOut, kname, kclass, convVars, restVars>>

NextOverlap == OverlapAnalysis

SpecOverlap == InitOverlap /\ [][NextOverlap]_vars

----------------------------------------------------------------------------
(* SpecPrimary: _find_primary_thread called on an event store *)

InitPrimary ==
    /\ nvtx = <<>>
    /\ LaunchTables
    /\ TraceArgs
    /\ TraceIdle
    /\ OverlapIdle
    /\ ConvIdle
    /\ RestIdle
    /\ pc = "call"

FindPrimaryThread ==
    /\ pc = "call"
    /\ primary_tid' \in _find_primary_thread(device)
    /\ pc' = "done"
    /\ UNCHANGED <<storeVars, argVars, roots, results, overlapVars, convVars, restVars>>

NextPrimary == FindPrimaryThread

SpecPrimary == InitPrimary /\ [][NextPrimary]_vars

----------------------------------------------------------------------------
(* SpecTree: build_nvtx_tree called on an event store *)

InitTree ==
    /\ TraceStore
    /\ TraceArgs
    /\ TraceIdle
    /\ OverlapIdle
    /\ ConvIdle
    /\ RestIdle
    /\ pc = "call"

BuildNvtxTree ==
    /\ pc = "call"
    /\ \E primary \in _find_primary_thread(device) :
         /\ primary_tid' = primary
         /\ roots' = build_nvtx_tree(device, trim, pad, primary)
    /\ pc' = "done"
    /\ UNCHANGED <<storeVars, argVars, results, overlapVars, convVars, restVars>>

NextTree == BuildNvtxTree

SpecTree == InitTree /\ [][NextTree]_vars

----------------------------------------------------------------------------
(* SpecConv: convergence_report called on a tree in the format of to_json  *)

KernelNode == [type |-> "kernel", name |-> "k", children |-> <<>>]
ScopeNode(children) == [type |-> "nvtx", name |-> "a", children |-> children]

ChildLists(nodes) == UNION {[1..k -> nodes] : k \in 0..MaxChildren}

(* scopes whose children are kernels only *)
LeafScopes == {ScopeNode(cs) : cs \in ChildLists({KernelNode})}

(* scopes whose children are kernels and leaf scopes, in any order *)
Scopes == {ScopeNode(cs) : cs \in ChildLists({KernelNode} \cup LeafScopes)}

(* the numbers of roots of a tree *)
RootCounts == 0..2

(* the roots of a tree are scopes, as build_nvtx_tree returns them *)
Trees == UNION {[1..k -> Scopes] : k \in RootCounts}

InitConv ==
    /\ EmptyStore
    /\ NoArgs
    /\ TraceIdle
    /\ OverlapIdle
    /\ tree_roots \in Trees
    /\ report = [error |-> "not called"]
    /\ RestIdle
    /\ pc = "call"

ConvergenceReport ==
    /\ pc = "call"
    /\ report' = convergence_report(tree_roots)
    /\ pc' = "done"
    /\ UNCHANGED <<storeVars, argVars, traceOut, overlapVars, tree_roots, restVars>>

NextConv == ConvergenceReport

SpecConv == InitConv /\ [][NextConv]_vars

----------------------------------------------------------------------------
(* SpecTargets: find_refinement_targets called on a tree *)

(* values of the max_kernels argument; 1 is the default *)
MaxKernelsArgs == {0, 1, 2}

InitTargets ==
    /\ EmptyStore
    /\ NoArgs
    /\ TraceIdle
    /\ OverlapIdle
    /\ tree_roots \in Trees
    /\ report = [error |-> "not called"]
    /\ max_kernels \in MaxKernelsArgs
    /\ targets = <<>>
    /\ IterIdle
    /\ BreakdownIdle
    /\ CallIdle
    /\ FrameIdle
    /\ AgentIdle
    /\ ChatIdle
    /\ SearchIdle
    /\ pc = "call"

FindRefinementTargets ==
    /\ pc = "call"
    /\ targets' = find_refinement_targets(tree_roots, max_kernels)
    /\ pc' = "done"
    /\ UNCHANGED <<storeVars, argVars, traceOut, overlapVars, convVars, max_kernels, iterVars,
                   breakdown, callVars, frameVars, agentVars, searchVars, chatVars>>

NextTargets == FindRefinementTargets

SpecTargets == InitTargets /\ [][NextTargets]_vars

----------------------------------------------------------------------------
(* SpecIter: detect_iterations called on an event store *)

Markers == {"fwd"}

InitIter ==
    /\ TraceStore
    /\ TraceArgs
    /\ TraceIdle
    /\ OverlapIdle
    /\ ConvIdle
    /\ TargetIdle
    /\ marker \in Markers
    /\ iterations = <<>>
    /\ iter_results = <<>>
    /\ BreakdownIdle
    /\ CallIdle
    /\ FrameIdle
    /\ AgentIdle
    /\ ChatIdle
    /\ SearchIdle
    /\ pc = "call"

DetectIterations ==
    /\ pc = "call"
    /\ \E primary \in _find_primary_thread(device) :
         /\ primary_tid' = primary
         /\ iterations' = detect_iterations(device, trim, marker, primary).iterations
         /\ iter_results' = detect_iterations(device, trim, marker, primary).results
    /\ pc' = "done"
    /\ UNCHANGED <<storeVars, argVars, roots, results, overlapVars, convVars, targetVars,
                   marker, breakdown, callVars, frameVars, agentVars, searchVars, chatVars>>

NextIter == DetectIterations

SpecIter == InitIter /\ [][NextIter]_vars

----------------------------------------------------------------------------
(* SpecBreakdown: nccl_breakdown called on the kernels of a device *)

InitBreakdown ==
    /\ nvtx = <<>>
    /\ runtime = <<>>
    /\ \E rows \in {s \in UNION {[1..k -> OverlapRows] : k \in KernelCounts} :
                       SortedByStart(s)} :
         kernel_tbl = KernelTable(rows)
    /\ trim \in {<<>>, <<1, MaxKT>>}
    /\ device = 0
    /\ pad = 0
    /\ TraceIdle
    /\ OverlapIdle
    /\ ConvIdle
    /\ TargetIdle
    /\ IterIdle
    /\ breakdown = [error |-> "not called"]
    /\ CallIdle
    /\ FrameIdle
    /\ AgentIdle
    /\ ChatIdle
    /\ SearchIdle
    /\ pc = "call"

NcclBreakdown ==
    /\ pc = "call"
    /\ breakdown' = nccl_breakdown(device, trim)
    /\ pc' = "done"
    /\ UNCHANGED <<storeVars, argVars, traceOut, overlapVars, convVars, targetVars, iterVars,
                   callVars, frameVars, agentVars, searchVars, chatVars>>

NextBreakdown == NcclBreakdown

SpecBreakdown == InitBreakdown /\ [][NextBreakdown]_vars

----------------------------------------------------------------------------
(* SpecCalls: project_nvtx called several times on an unchanged event store, *)
(* with the same or other devices and windows                               *)

(* the calls made in one behaviour *)
CallNumbers == 1..2

Devices == {0, 1}

(* one launch call and the kernel it launched *)
OneLaunchTable ==
    \E ls \in [1..1 -> LaunchRows] :
        /\ runtime = [i \in DOMAIN ls |->
                        [tid |-> ls[i].tid, start |-> ls[i].start,
                         end |-> ls[i].end, corr |-> i]]
        /\ \E choice \in [DOMAIN ls -> KernelChoices] :
               kernel_tbl = KernelRows(choice)

InitCalls ==
    /\ NvtxTable
    /\ OneLaunchTable
    /\ device \in Devices
    /\ \E wa \in WindowArgs : trim = wa[1] /\ pad = wa[2]
    /\ TraceIdle
    /\ OverlapIdle
    /\ ConvIdle
    /\ TargetIdle
    /\ IterIdle
    /\ BreakdownIdle
    /\ CallIdle
    /\ FrameIdle
    /\ AgentIdle
    /\ ChatIdle
    /\ SearchIdle
    /\ pc = "call"

ProjectNvtxCall ==
    /\ pc = "call"
    /\ results' = ProjectCall(device, trim, pad, depth_stacks).results
    /\ depth_stacks' = ProjectCall(device, trim, pad, depth_stacks).stacks
    /\ depth_stacks_before' = depth_stacks
    /\ calls' = calls + 1
    /\ pc' = "done"
    /\ UNCHANGED <<storeVars, argVars, primary_tid, roots, overlapVars, convVars,
                   targetVars, iterVars, breakdown, frameVars, agentVars, searchVars, chatVars>>

(* the caller picks the arguments of the next call *)
NextArguments ==
    /\ pc = "done"
    /\ calls + 1 \in CallNumbers
    /\ device' \in Devices
    /\ \E wa \in WindowArgs : trim' = wa[1] /\ pad' = wa[2]
    /\ pc' = "call"
    /\ UNCHANGED <<storeVars, traceOut, overlapVars, convVars, restVars>>

NextCalls == ProjectNvtxCall \/ NextArguments

SpecCalls == InitCalls /\ [][NextCalls]_vars

----------------------------------------------------------------------------
(* SpecFrame: build_nvtx_tree called on a store, then again after the rows  *)
(* of every thread but the selected primary one were taken out of the       *)
(* store.  Two stores that agree on the primary thread and on the kernel    *)
(* table become the same store by that removal, so a tree that survives it  *)
(* is the same for both, whatever was added, removed or changed on the      *)
(* other threads.                                                           *)

(* <<trim, pad>>: a window that cuts nothing and one that cuts the         *)
(* look-back and the GPU side                                              *)
FrameArgs == {<< <<0, MaxT>>, 0 >>, << <<2, MaxT>>, 1 >>}

InitFrame ==
    /\ TraceStore
    /\ device = 0
    /\ \E wa \in FrameArgs : trim = wa[1] /\ pad = wa[2]
    /\ TraceIdle
    /\ OverlapIdle
    /\ ConvIdle
    /\ RestIdle
    /\ pc = "call"

BuildFirst ==
    /\ pc = "call"
    /\ \E primary \in _find_primary_thread(device) :
         /\ primary_tid' = primary
         /\ roots' = build_nvtx_tree(device, trim, pad, primary)
    /\ pc' = "built"
    /\ UNCHANGED <<storeVars, argVars, results, overlapVars, convVars, restVars>>

RemoveOtherThreads ==
    /\ pc = "built"
    /\ nvtx' = SelectSeq(nvtx, LAMBDA n : n.tid = primary_tid)
    /\ runtime' = SelectSeq(runtime, LAMBDA r : r.tid = primary_tid)
    /\ removed' = (Len(nvtx) - Len(nvtx')) + (Len(runtime) - Len(runtime'))
    /\ roots_before' = roots
    /\ pc' = "edited"
    /\ UNCHANGED <<kernel_tbl, argVars, traceOut, overlapVars, convVars, targetVars,
                   iterVars, breakdown, callVars, agentVars, searchVars, chatVars>>

(* the second call, in which the selector returns the same primary thread *)
BuildAgain ==
    /\ pc = "edited"
    /\ \E primary \in _find_primary_thread(device) :
         /\ primary = primary_tid
         /\ roots' = build_nvtx_tree(device, trim, pad, primary)
    /\ pc' = "done"
    /\ UNCHANGED <<storeVars, argVars, primary_tid, results, overlapVars, convVars,
                   restVars>>

NextFrame == BuildFirst \/ RemoveOtherThreads \/ BuildAgain

SpecFrame == InitFrame /\ [][NextFrame]_vars

----------------------------------------------------------------------------
(* SpecSkills: Agent._select_skills called on a question *)

(* what a question is made of: keywords in either case, halves of a        *)
(* keyword, and words the keyword map does not hold                         *)
QuestionParts == {
    <<"K", "E", "R", "N", "E", "L">>,
    <<"i", "t", "e", "r", "a", "t", "i", "o", "n">>,
    <<"s", "l", "o", "w">>,
    <<"N", "C", "C", "L">>,
    <<"m", "u", "l", "t", "i", "-", "g", "p", "u">>,
    <<"h", "2", "d">>,
    <<"b", "o", "t", "t", "l", "e">>,
    <<"n", "e", "c", "k">>,
    <<"g", "a", "p">>,
    <<"w", "h", "y">>,
    <<" ">>,
    <<"?">> }

Questions == {Concat(parts) : parts \in UNION {[1..k -> QuestionParts] : k \in 0..MaxFragments}}

InitSkills ==
    /\ EmptyStore
    /\ NoArgs
    /\ TraceIdle
    /\ OverlapIdle
    /\ ConvIdle
    /\ TargetIdle /\ IterIdle /\ BreakdownIdle /\ CallIdle /\ FrameIdle
    /\ question \in Questions
    /\ selected_skills = <<>>
    /\ SearchIdle
    /\ ChatIdle
    /\ pc = "call"

SelectSkills ==
    /\ pc = "call"
    /\ selected_skills' = _select_skills(question)
    /\ pc' = "done"
    /\ UNCHANGED <<storeVars, argVars, traceOut, overlapVars, convVars, targetVars,
                   iterVars, breakdown, callVars, frameVars, question, searchVars,
                   chatVars>>

NextSkills == SelectSkills

SpecSkills == InitSkills /\ [][NextSkills]_vars

----------------------------------------------------------------------------
(* SpecSearch: search_hierarchy called on an event store *)

ParentPatterns == {<<"W">>, <<"g", "e", "m", "m">>, <<"x">>}
ChildPatterns == {<<"G", "E", "M">>, <<"x">>}

InitSearch ==
    /\ TraceStore
    /\ device = 0
    /\ trim = <<0, MaxT>>
    /\ pad = DefaultPad
    /\ TraceIdle
    /\ OverlapIdle
    /\ ConvIdle
    /\ TargetIdle /\ IterIdle /\ BreakdownIdle /\ CallIdle /\ FrameIdle
    /\ AgentIdle
    /\ ChatIdle
    /\ parent_pattern \in ParentPatterns
    /\ child_pattern \in ChildPatterns
    /\ hierarchy = <<>>
    /\ pc = "call"

SearchHierarchy ==
    /\ pc = "call"
    /\ \E primary \in _find_primary_thread(device) :
         /\ primary_tid' = primary
         /\ roots' = build_nvtx_tree(device, trim, DefaultPad, primary)
    /\ hierarchy' = search_hierarchy(roots', parent_pattern, child_pattern)
    /\ pc' = "done"
    /\ UNCHANGED <<storeVars, argVars, results, overlapVars, convVars, targetVars,
                   iterVars, breakdown, callVars, frameVars, agentVars,
                   parent_pattern, child_pattern, chatVars>>

NextSearch == SearchHierarchy

SpecSearch == InitSearch /\ [][NextSearch]_vars

----------------------------------------------------------------------------
(* SpecOrphan: build_nvtx_tree, then detect_iterations, on a store that may *)
(* hold a kernel no launch call is correlated to                            *)

(* rows of CUPTI_ACTIVITY_KIND_KERNEL whose correlationId no row of         *)
(* CUPTI_ACTIVITY_KIND_RUNTIME carries                                      *)
OrphanKernels ==
    {<<>>,
     <<[corr |-> 9, dev |-> 0, start |-> 0, end |-> 1, name |-> GemmName, stream |-> 7]>>}

OrphanTables ==
    \E ls \in {s \in UNION {[1..k -> LaunchRows] : k \in LaunchCounts} : SortedByStart(s)} :
        /\ runtime = [i \in DOMAIN ls |->
                        [tid |-> ls[i].tid, start |-> ls[i].start,
                         end |-> ls[i].end, corr |-> i]]
        /\ \E choice \in [DOMAIN ls -> KernelChoices] : \E orphans \in OrphanKernels :
               kernel_tbl = KernelRows(choice) \o orphans

InitOrphan ==
    /\ NvtxTable
    /\ OrphanTables
    /\ device = 0
    /\ trim = <<0, MaxT>>
    /\ pad = DefaultPad
    /\ TraceIdle
    /\ OverlapIdle
    /\ ConvIdle
    /\ TargetIdle
    /\ marker \in Markers
    /\ iterations = <<>>
    /\ iter_results = <<>>
    /\ BreakdownIdle
    /\ CallIdle
    /\ FrameIdle
    /\ AgentIdle
    /\ ChatIdle
    /\ SearchIdle
    /\ pc = "call"

DetectAfterBuild ==
    /\ pc = "built"
    /\ \E primary \in _find_primary_thread(device) :
         /\ iterations' = detect_iterations(device, trim, marker, primary).iterations
         /\ iter_results' = detect_iterations(device, trim, marker, primary).results
    /\ pc' = "done"
    /\ UNCHANGED <<storeVars, argVars, traceOut, overlapVars, convVars, targetVars,
                   marker, breakdown, callVars, frameVars, agentVars, searchVars, chatVars>>

NextOrphan == BuildFirst \/ DetectAfterBuild

SpecOrphan == InitOrphan /\ [][NextOrphan]_vars

----------------------------------------------------------------------------
(* SpecDepth: project_nvtx called on a store in which both threads launch   *)
(* a kernel of the device and up to three scopes interleave                 *)

DepthScopeCounts == 0..3

(* one launch call on each thread, each correlated to a kernel of device 0 *)
BothThreadsLaunch ==
    \E ls \in {s \in [1..2 -> LaunchRows] :
                 SortedByStart(s) /\ {s[1].tid, s[2].tid} = Tids} :
        /\ runtime = [i \in DOMAIN ls |->
                        [tid |-> ls[i].tid, start |-> ls[i].start,
                         end |-> ls[i].end, corr |-> i]]
        /\ kernel_tbl = KernelRows([i \in DOMAIN ls |-> [dev |-> 0, start |-> 0, end |-> 1]])

InitDepth ==
    /\ nvtx \in {s \in UNION {[1..k -> ScopeRows] : k \in DepthScopeCounts} : SortedByStart(s)}
    /\ BothThreadsLaunch
    /\ device = 0
    /\ trim = <<0, MaxT>>
    /\ pad = 0
    /\ TraceIdle
    /\ OverlapIdle
    /\ ConvIdle
    /\ RestIdle
    /\ pc = "call"

NextDepth == ProjectNvtx

SpecDepth == InitDepth /\ [][NextDepth]_vars

----------------------------------------------------------------------------
(* SpecAgree: build_nvtx_tree, then project_nvtx, called with the same      *)
(* arguments on one event store                                             *)

ProjectAfterBuild ==
    /\ pc = "built"
    /\ results' = project_nvtx(device, trim, pad)
    /\ pc' = "done"
    /\ UNCHANGED <<storeVars, argVars, primary_tid, roots, overlapVars, convVars, restVars>>

NextAgree == BuildFirst \/ ProjectAfterBuild

SpecAgree == InitFrame /\ [][NextAgree]_vars

----------------------------------------------------------------------------
(* SpecSigned: detect_iterations called on a store whose timestamps are     *)
(* signed: the trace-local epoch lies inside the trace                      *)

SignedTimes == (0 - MaxT)..MaxT

SignedScopeRows == {r \in [text : Texts, tid : Tids, start : SignedTimes, end : SignedTimes] :
                      r.end > r.start}

(* one launch call, correlated to a kernel of device 0 *)
SignedLaunch ==
    \E tid \in Tids : \E at \in SignedTimes :
        /\ runtime = <<[tid |-> tid, start |-> at, end |-> at, corr |-> 1]>>
        /\ kernel_tbl = <<[corr |-> 1, dev |-> 0, start |-> at, end |-> at + 1,
                           name |-> GemmName, stream |-> 7]>>

InitSigned ==
    /\ nvtx \in {s \in UNION {[1..k -> SignedScopeRows] : k \in ScopeCounts} : SortedByStart(s)}
    /\ SignedLaunch
    /\ device = 0
    /\ trim = <<0 - MaxT, MaxT>>
    /\ pad = 0
    /\ TraceIdle
    /\ OverlapIdle
    /\ ConvIdle
    /\ TargetIdle
    /\ marker \in Markers
    /\ iterations = <<>>
    /\ iter_results = <<>>
    /\ BreakdownIdle
    /\ CallIdle
    /\ FrameIdle
    /\ AgentIdle
    /\ ChatIdle
    /\ SearchIdle
    /\ pc = "call"

NextSigned == DetectIterations

SpecSigned == InitSigned /\ [][NextSigned]_vars

----------------------------------------------------------------------------
(* SpecIterNames: detect_iterations called on a store whose kernels are     *)
(* compute kernels or collective kernels                                    *)

IterKernelNames == {GemmName, <<"N", "C", "C", "L", "K", "e", "r", "n", "e", "l">>}

NamedLaunchTables ==
    \E ls \in {s \in UNION {[1..k -> LaunchRows] : k \in LaunchCounts} : SortedByStart(s)} :
        /\ runtime = [i \in DOMAIN ls |->
                        [tid |-> ls[i].tid, start |-> ls[i].start,
                         end |-> ls[i].end, corr |-> i]]
        /\ \E choice \in [DOMAIN ls -> KernelChoices] :
             \E names \in [DOMAIN KernelRows(choice) -> IterKernelNames] :
               kernel_tbl = [j \in DOMAIN names |->
                               [KernelRows(choice)[j] EXCEPT !.name = names[j]]]

(* NVTX rows that all carry the marker text, ORDER BY start *)
MarkerTable ==
    nvtx \in {s \in UNION {[1..k -> {r \in ScopeRows : r.text \in Markers}] : k \in ScopeCounts} :
                SortedByStart(s)}

InitIterNames ==
    /\ MarkerTable
    /\ NamedLaunchTables
    /\ device = 0
    /\ trim = <<0, MaxT>>
    /\ pad = 0
    /\ TraceIdle
    /\ OverlapIdle
    /\ ConvIdle
    /\ TargetIdle
    /\ marker \in Markers
    /\ iterations = <<>>
    /\ iter_results = <<>>
    /\ BreakdownIdle
    /\ CallIdle
    /\ FrameIdle
    /\ AgentIdle
    /\ ChatIdle
    /\ SearchIdle
    /\ pc = "call"

NextIterNames == DetectIterations

SpecIterNames == InitIterNames /\ [][NextIterNames]_vars

----------------------------------------------------------------------------
(* SpecBoth: convergence_report, then find_refinement_targets, called on    *)
(* the same tree                                                            *)

ReportFirst ==
    /\ pc = "call"
    /\ report' = convergence_report(tree_roots)
    /\ pc' = "reported"
    /\ UNCHANGED <<storeVars, argVars, traceOut, overlapVars, tree_roots, restVars>>

TargetsAfterReport ==
    /\ pc = "reported"
    /\ targets' = find_refinement_targets(tree_roots, max_kernels)
    /\ pc' = "done"
    /\ UNCHANGED <<storeVars, argVars, traceOut, overlapVars, convVars, max_kernels, iterVars,
                   breakdown, callVars, frameVars, agentVars, searchVars, chatVars>>

NextBoth == ReportFirst \/ TargetsAfterReport

SpecBoth == InitTargets /\ [][NextBoth]_vars

----------------------------------------------------------------------------
(* SpecChat: Agent.ask and Agent.reset_conversation called in any order;    *)
(* pc names the call made last                                              *)

MaxAsks == 4

AskedQuestions == {<<"w", "h", "y">>, <<"s", "l", "o", "w">>}

InitChat ==
    /\ EmptyStore
    /\ NoArgs
    /\ TraceIdle
    /\ OverlapIdle
    /\ ConvIdle
    /\ TargetIdle /\ IterIdle /\ BreakdownIdle /\ CallIdle /\ FrameIdle
    /\ AgentIdle
    /\ SearchIdle
    /\ ChatIdle
    /\ pc = "new"

Ask ==
    /\ asks < MaxAsks
    /\ \E q \in AskedQuestions : \E outcome \in LlmOutcomes :
         /\ question' = q
         /\ selected_skills' = SkillsOfAsk(q)
         /\ conversation' = _try_llm_synthesis(conversation, q, outcome)
    /\ asks' = asks + 1
    /\ pc' = "asked"
    /\ UNCHANGED <<storeVars, argVars, traceOut, overlapVars, convVars, targetVars,
                   iterVars, breakdown, callVars, frameVars, searchVars>>

ResetConversation ==
    /\ conversation' = reset_conversation(conversation)
    /\ pc' = "reset"
    /\ UNCHANGED <<storeVars, argVars, traceOut, overlapVars, convVars, targetVars,
                   iterVars, breakdown, callVars, frameVars, agentVars, searchVars, asks>>

NextChat == Ask \/ ResetConversation

SpecChat == InitChat /\ [][NextChat]_vars

----------------------------------------------------------------------------
(* Properties of _find_primary_thread *)

(* C3: the primary thread is a thread with the largest number of launch     *)
(* calls correlated to kernels of the device, and among those the           *)
(* numerically smallest thread id                                           *)
C3_PrimarySmallestTid ==
    pc = "done" =>
        \/ /\ \A t \in Tids : LaunchCount(device, t) = 0
           /\ primary_tid = 0
        \/ /\ LaunchCount(device, primary_tid) > 0
           /\ \A t \in Tids : LaunchCount(device, t) <= LaunchCount(device, primary_tid)
           /\ \A t \in Tids : LaunchCount(device, t) = LaunchCount(device, primary_tid)
                                => primary_tid <= t

----------------------------------------------------------------------------
(* Properties of build_nvtx_tree *)

(* <<eid of a Scope node, corr of a Leaf among its children>> *)
RECURSIVE LeafOwners(_)
LeafOwners(nodes) ==
    UNION {IF nodes[j].type # "nvtx" THEN {}
           ELSE {<<nodes[j].eid, nodes[j].children[c].corr>> :
                    c \in {c \in DOMAIN nodes[j].children :
                              nodes[j].children[c].type = "kernel"}}
                \cup LeafOwners(nodes[j].children) : j \in DOMAIN nodes}

(* eids of the Scope nodes of a tree *)
RECURSIVE ScopeIds(_)
ScopeIds(nodes) ==
    UNION {IF nodes[j].type # "nvtx" THEN {}
           ELSE {nodes[j].eid} \cup ScopeIds(nodes[j].children) : j \in DOMAIN nodes}

(* the rows and launch calls build_nvtx_tree loaded *)
TreeLoaded == TreeScopes(primary_tid, trim, pad)
TreeLaunches == Range(runtime_rows(primary_tid, <<trim[1] - pad, trim[2] + LookForward>>))
Holds(n, r) == r.start >= n.start /\ r.end <= n.end

(* C1: leaf exclusivity.  No kernel is a Leaf child of two distinct Scope   *)
(* nodes of the tree build_nvtx_tree returns.                               *)
C1_LeafExclusive ==
    pc = "done" =>
        \A p, q \in LeafOwners(roots) : p[2] = q[2] => p[1] = q[1]

(* the Scope nodes of a tree *)
RECURSIVE ScopeNodes(_)
ScopeNodes(nodes) ==
    UNION {IF nodes[j].type # "nvtx" THEN {}
           ELSE {nodes[j]} \cup ScopeNodes(nodes[j].children) : j \in DOMAIN nodes}

LeafCorrs(node) ==
    {node.children[c].corr :
        c \in {c \in DOMAIN node.children : node.children[c].type = "kernel"}}

(* C2: innermost attribution.  A kernel whose launch call lies inside a     *)
(* scope kept in the tree is, after deduplication, a Leaf child of an       *)
(* innermost kept scope containing the launch call: a Scope node whose CPU  *)
(* interval contains the launch call and none of whose descendants does.    *)
C2_InnermostAttribution ==
    pc = "done" =>
        \A r \in TreeLaunches :
            ( /\ r.corr \in DOMAIN kernel_map(device)
              /\ \E e \in ScopeIds(roots) : Holds(TreeLoaded[e], r) )
            => \E n \in ScopeNodes(roots) :
                  /\ Holds(TreeLoaded[n.eid], r)
                  /\ ~ \E d \in ScopeIds(n.children) : Holds(TreeLoaded[d], r)
                  /\ r.corr \in LeafCorrs(n)

----------------------------------------------------------------------------
(* Properties of project_nvtx *)

(* the rows project_nvtx iterates over, and the entries it emitted for one *)
Loaded == LoadedScopes(device, trim, pad)
EmittedFor(i) == {j \in DOMAIN results : results[j].src = i}

(* push/pop discipline of the scopes of one thread: disjoint or nested *)
StackDiscipline(tid) ==
    \A i, j \in DOMAIN nvtx :
        (i # j /\ nvtx[i].tid = tid /\ nvtx[j].tid = tid) =>
            \/ nvtx[i].end <= nvtx[j].start
            \/ nvtx[j].end <= nvtx[i].start
            \/ (nvtx[i].start <= nvtx[j].start /\ nvtx[j].end <= nvtx[i].end)
            \/ (nvtx[j].start <= nvtx[i].start /\ nvtx[i].end <= nvtx[j].end)

(* C4: depth monotonicity.  In the output of project_nvtx every depth is   *)
(* >= 0, and on a thread whose scopes obey the stack discipline, a scope B *)
(* whose innermost containing scope is A has depth(B) > depth(A).          *)
C4_DepthMonotone ==
    pc = "done" =>
        /\ \A j \in DOMAIN results : results[j].depth >= 0
        /\ \A ja, jb \in DOMAIN results :
              LET A == Loaded[results[ja].src]
                  B == Loaded[results[jb].src]
              IN  ( /\ A.tid = B.tid
                    /\ StackDiscipline(A.tid)
                    /\ Inside(B, A)
                    /\ ~ \E c \in DOMAIN Loaded :
                           /\ Loaded[c].tid = A.tid /\ Loaded[c].text # ""
                           /\ Inside(B, Loaded[c]) /\ Inside(Loaded[c], A) )
                  => results[jb].depth > results[ja].depth

(* the kernels on the device that the launches of a set resolve to, for    *)
(* the launches of the scope's thread lying inside the scope               *)
ResolvedIn(n, launches) ==
    {kernel_map(device)[r.corr] :
        r \in {r \in launches : /\ r.tid = n.tid
                                 /\ r.start >= n.start /\ r.end <= n.end
                                 /\ r.corr \in DOMAIN kernel_map(device)}}

(* the emission rule: one entry for the scope if its candidate interval    *)
(* intersects [T0,T1], none otherwise                                      *)
EmissionRule(launches) ==
    \A i \in DOMAIN Loaded :
        Loaded[i].text # "" =>
            LET n  == Loaded[i]
                ks == ResolvedIn(n, launches)
                cand == IF ks # {}
                        THEN [start |-> SetMin({k.start : k \in ks}),
                              end |-> SetMax({k.end : k \in ks}), projected |-> TRUE]
                        ELSE [start |-> n.start, end |-> n.end, projected |-> FALSE]
            IN  IF cand.end >= trim[1] /\ cand.start <= trim[2]
                THEN /\ Cardinality(EmittedFor(i)) = 1
                     /\ \A j \in EmittedFor(i) :
                           /\ results[j].name = n.text
                           /\ results[j].start = cand.start
                           /\ results[j].end = cand.end
                           /\ results[j].projected = cand.projected
                ELSE EmittedFor(i) = {}

(* C5 as stated: the candidate interval is decided by every launch call   *)
(* of the thread inside the scope                                          *)
C5_EmissionAllLaunches ==
    pc = "done" => EmissionRule(Range(runtime))

(* C5, emission rule over the loaded launch calls: for each loaded scope   *)
(* with non-empty text, one entry when the candidate interval intersects   *)
(* [T0,T1] and none otherwise, the candidate being decided by the launch   *)
(* calls with start >= T0 - pad and end <= T1 + look-forward               *)
C5_EmissionLoadedLaunches ==
    pc = "done" =>
        EmissionRule({r \in Range(runtime) :
                        r.start >= trim[1] - pad /\ r.end <= trim[2] + LookForward})

(* a call that emitted a projected entry for one loaded scope and no entry *)
(* for another named loaded scope                                         *)
C5_Witness ==
    /\ pc = "done"
    /\ \E j \in DOMAIN results : results[j].projected
    /\ \E i \in DOMAIN Loaded : Loaded[i].text # "" /\ EmittedFor(i) = {}

----------------------------------------------------------------------------
(* Properties of classify_kernel *)

(* the priority order the claim fixes, in lower case *)
C8_Order == <<
    [pattern |-> <<"a", "l", "l", "g", "a", "t", "h", "e", "r">>, class |-> "nccl_allgather"],
    [pattern |-> <<"r", "e", "d", "u", "c", "e", "s", "c", "a", "t", "t", "e", "r">>, class |-> "nccl_reducescatter"],
    [pattern |-> <<"a", "l", "l", "r", "e", "d", "u", "c", "e">>, class |-> "nccl_allreduce"],
    [pattern |-> <<"b", "r", "o", "a", "d", "c", "a", "s", "t">>, class |-> "nccl_broadcast"],
    [pattern |-> <<"s", "e", "n", "d", "r", "e", "c", "v">>, class |-> "nccl_sendrecv"],
    [pattern |-> <<"r", "e", "d", "u", "c", "e">>, class |-> "nccl_reduce"] >>

(* C8: classification priority.  classify_kernel returns compute iff the   *)
(* name does not contain "nccl" (case-insensitive); otherwise the type of  *)
(* the first pattern, in the order AllGather, ReduceScatter, AllReduce,    *)
(* Broadcast, SendRecv, Reduce, that occurs in the name, nccl_other if     *)
(* none occurs; a name containing AllReduce or ReduceScatter is never      *)
(* plain reduce.                                                           *)
C8_ClassificationPriority ==
    pc = "done" =>
        LET low == Lower(kname)
            hasNccl == Contains(low, <<"n", "c", "c", "l">>)
            Occurs(i) == Contains(low, C8_Order[i].pattern)
        IN  /\ (kclass = "compute") <=> ~ hasNccl
            /\ \A i \in DOMAIN C8_Order :
                  (kclass = C8_Order[i].class)
                      <=> (hasNccl /\ Occurs(i) /\ \A j \in 1..(i - 1) : ~ Occurs(j))
            /\ (kclass = "nccl_other")
                  <=> (hasNccl /\ \A i \in DOMAIN C8_Order : ~ Occurs(i))
            /\ (Occurs(2) \/ Occurs(3)) => kclass # "nccl_reduce"

(* a collective name that contains both AllReduce and Reduce, in mixed case *)
C8_Witness ==
    /\ pc = "done"
    /\ kclass = "nccl_allreduce"
    /\ Contains(kname, <<"N", "C", "C", "L">>)
    /\ Contains(kname, <<"A", "l", "l", "R", "e", "d", "u", "c", "e">>)

----------------------------------------------------------------------------
(* Properties of overlap_analysis *)

(* the one-nanosecond cells [t, t+1) between lo and hi that a set of       *)
(* kernels covers                                                          *)
Cells(ks, lo, hi) == {t \in lo..(hi - 1) : \E k \in ks : k.start <= t /\ t + 1 <= k.end}

SpanStart(ks) == SetMin({k.start : k \in ks})
SpanEnd(ks) == SetMax({k.end : k \in ks})

PartitionHolds(ks) ==
    ks # {} =>
        /\ ov.error = ""
        /\ ov.total_ns = SpanEnd(ks) - SpanStart(ks)
        /\ ov.compute_only_ns + ov.nccl_only_ns + ov.overlap_ns + ov.idle_ns = ov.total_ns
        /\ ov.overlap_ns <= Min2(ov.compute_ns, ov.nccl_ns)

(* C6: overlap partition.  For a non-empty kernel set, compute_only +      *)
(* comm_only + overlap + idle (clamped to >= 0) = total, the latest kernel *)
(* end minus the earliest kernel start, and overlap <= min(compute         *)
(* covered, collective covered).                                           *)
C6_OverlapPartition ==
    pc = "done" => PartitionHolds(Range(kernels(device, trim)))

(* both categories present, with time in each of the four parts *)
C6_Witness ==
    /\ pc = "done"
    /\ ov.error = ""
    /\ ov.compute_only_ns > 0
    /\ ov.nccl_only_ns > 0
    /\ ov.overlap_ns > 0
    /\ ov.idle_ns > 0

ValueHolds(compute, collective, lo, hi) ==
    /\ ov.overlap_ns = Cardinality(Cells(compute, lo, hi) \cap Cells(collective, lo, hi))
    /\ ov.compute_ns = Cardinality(Cells(compute, lo, hi))
    /\ ov.nccl_ns = Cardinality(Cells(collective, lo, hi))

ValueHoldsFor(ks) ==
    ks # {} =>
        ValueHolds({k \in ks : k.name = GemmName}, {k \in ks : k.name = AllReduceName},
                   SpanStart(ks), SpanEnd(ks))

(* C7: overlap value.  overlap_ns is the number of nanoseconds covered by  *)
(* at least one compute kernel and at least one collective kernel;         *)
(* compute_ns and nccl_ns are the measures of the unions of the compute    *)
(* and of the collective intervals; the scenario gives compute_only = 15,  *)
(* comm_only = 0, overlap = 10.                                            *)
C7_OverlapValue ==
    pc = "done" =>
        /\ ValueHoldsFor(Range(kernels(device, trim)))
        /\ (kernel_tbl = Scenario) =>
              /\ ov.compute_only_ns = 15
              /\ ov.nccl_only_ns = 0
              /\ ov.overlap_ns = 10

(* the scenario has been analysed *)
C7_Witness ==
    /\ pc = "done"
    /\ kernel_tbl = Scenario
    /\ ov.error = ""
    /\ ov.overlap_ns = 10

----------------------------------------------------------------------------
(* Properties of convergence_report *)

(* C9: coverage arithmetic.  For any tree given to convergence_report,      *)
(* mapped_kernels + unmapped_kernels = total_kernels and 0 <= coverage_pct  *)
(* <= 100 (here in tenths of a percent), with coverage_pct = 0 when there   *)
(* are no kernels.                                                          *)
C9_CoverageArithmetic ==
    pc = "done" =>
        /\ report.mapped_kernels + report.unmapped_kernels = report.total_kernels
        /\ report.coverage_pct >= 0
        /\ report.coverage_pct <= 1000
        /\ (report.total_kernels = 0) => report.coverage_pct = 0

(* a report over converged and unconverged leaf scopes, coverage strictly   *)
(* between 0 and 100 percent                                                *)
C9_Witness ==
    /\ pc = "done"
    /\ report.mapped_kernels > 0
    /\ report.unmapped_kernels > 0
    /\ report.coverage_pct > 0
    /\ report.coverage_pct < 1000

(* the number of nodes of type kernel in a list of nodes and below it *)
RECURSIVE KernelLeaves(_)
KernelLeaves(nodes) ==
    IF nodes = <<>> THEN 0
    ELSE (IF Head(nodes).type = "kernel" THEN 1 ELSE KernelLeaves(Head(nodes).children))
         + KernelLeaves(Tail(nodes))

(* C10: total_kernels of the report equals the number of kernel leaves of   *)
(* the tree, for every tree shape, scopes with both scope children and      *)
(* direct kernel children included.                                         *)
C10_TotalIsKernelLeaves ==
    pc = "done" => report.total_kernels = KernelLeaves(tree_roots)

----------------------------------------------------------------------------
(* Properties of find_refinement_targets *)

(* the Scope nodes of a tree with their depth, in depth-first pre-order *)
RECURSIVE PreOrder(_, _)
PreOrder(nodes, depth) ==
    IF nodes = <<>> THEN <<>>
    ELSE IF Head(nodes).type = "nvtx"
         THEN <<[node |-> Head(nodes), depth |-> depth]>>
              \o PreOrder(Head(nodes).children, depth + 1)
              \o PreOrder(Tail(nodes), depth)
         ELSE PreOrder(Tail(nodes), depth)

KernelCount(node) == Len(SelectSeq(node.children, IsKernel))
HasScopeChild(node) == \E i \in DOMAIN node.children : node.children[i].type = "nvtx"
IsMixedTarget(t) == "note" \in DOMAIN t

(* C11: mixed refinement targets.  Called with the default max_kernels = 1, *)
(* find_refinement_targets returns, with the mixed note, every Scope node   *)
(* that has at least one Scope child and at least one direct kernel child.  *)
C11_MixedTargets ==
    (pc = "done" /\ max_kernels = 1) =>
        \A i \in DOMAIN PreOrder(tree_roots, 0) :
            LET e == PreOrder(tree_roots, 0)[i]
            IN  (HasScopeChild(e.node) /\ KernelCount(e.node) >= 1) =>
                    \E j \in DOMAIN targets :
                        /\ IsMixedTarget(targets[j])
                        /\ targets[j].name = e.node.name
                        /\ targets[j].depth = e.depth
                        /\ targets[j].kernel_count = KernelCount(e.node)

(* what identifies a target to its reader *)
Summary(t) == [name |-> t.name, depth |-> t.depth, kernel_count |-> t.kernel_count,
               mixed |-> IsMixedTarget(t)]

(* the nodes with more than max_kernels kernel children, in pre-order *)
ExpectedTargets ==
    LET over == SelectSeq(PreOrder(tree_roots, 0),
                          LAMBDA e : KernelCount(e.node) > max_kernels)
    IN  [i \in DOMAIN over |->
            [name |-> over[i].node.name, depth |-> over[i].depth,
             kernel_count |-> KernelCount(over[i].node),
             mixed |-> HasScopeChild(over[i].node)]]

WithCount(s, c) == SelectSeq(s, LAMBDA t : t.kernel_count = c)

(* C12: the targets are in non-increasing kernel_count order, and targets   *)
(* with equal kernel_count keep the order in which the depth-first          *)
(* pre-order walk of the tree found them.                                   *)
C12_SortedStable ==
    pc = "done" =>
        /\ \A i, j \in DOMAIN targets :
              i < j => targets[i].kernel_count >= targets[j].kernel_count
        /\ \A c \in 0..(MaxChildren + 1) :
              WithCount([i \in DOMAIN targets |-> Summary(targets[i])], c)
                  = WithCount(ExpectedTargets, c)

(* the sort moved a target found first behind two targets of a larger,      *)
(* equal kernel_count that differ in depth                                  *)
C12_Witness ==
    /\ pc = "done"
    /\ Len(targets) = 3
    /\ targets[1].kernel_count = targets[2].kernel_count
    /\ targets[2].kernel_count > targets[3].kernel_count
    /\ targets[1].depth # targets[2].depth
    /\ ExpectedTargets[1].kernel_count < ExpectedTargets[2].kernel_count

----------------------------------------------------------------------------
(* Properties of detect_iterations *)

(* C13: iteration marker non-overlap.  For any two consecutively kept       *)
(* markers the earlier one's end is <= the later one's start, so the kept   *)
(* CPU marker intervals are pairwise non-overlapping.                       *)
C13_MarkersDisjoint ==
    pc = "done" =>
        /\ \A i \in 1..(Len(iterations) - 1) : iterations[i].end <= iterations[i + 1].start
        /\ \A i, j \in DOMAIN iterations :
              i < j => iterations[i].end <= iterations[j].start

(* of two marker rows one was kept, the other overlapped it and was       *)
(* discarded, and the kept one produced an iteration                      *)
C13_Witness ==
    /\ pc = "done"
    /\ Len(iterations) = 1
    /\ Len(MarkerRows(primary_tid, trim, marker)) = 2
    /\ iter_results # <<>>

(* greedy earliest-start selection over rows from position i on; last is    *)
(* the position of the most recently kept row, 0 when none was kept yet     *)
RECURSIVE GreedyFrom(_, _, _)
GreedyFrom(rows, i, last) ==
    IF i > Len(rows) THEN <<>>
    ELSE IF last = 0 \/ rows[i].start >= rows[last].end
         THEN <<rows[i]>> \o GreedyFrom(rows, i + 1, i)
         ELSE GreedyFrom(rows, i + 1, last)

(* C25: greedy earliest-start selection.  Scanning the marker scopes of the *)
(* primary thread in start order, detect_iterations keeps the earliest one  *)
(* and then a candidate iff its start is >= the end of the most recently    *)
(* kept marker, whatever the sign of the timestamps.                        *)
C25_GreedySelection ==
    (pc = "done" /\ DOMAIN kernel_map(device) # {}) =>
        iterations = GreedyFrom(MarkerRows(primary_tid, trim, marker), 1, 0)

(* the kernels of the device launched from the primary thread by a launch   *)
(* call inside marker row m                                                 *)
KernelsOfMarker(m) ==
    {kernel_map(device)[r.corr] :
        r \in {r \in Range(runtime) : /\ r.tid = primary_tid
                                      /\ r.start >= m.start /\ r.end <= m.end
                                      /\ r.corr \in DOMAIN kernel_map(device)}}

RECURSIVE DurationSum(_)
DurationSum(ks) ==
    IF ks = {} THEN 0
    ELSE LET k == CHOOSE k \in ks : TRUE
         IN  (k.end - k.start) + DurationSum(ks \ {k})

(* C26: detect_iterations returns one entry for each kept marker that has   *)
(* a correlated kernel and none for the others; the entry has kernel_count  *)
(* >= 1, GPU bounds equal to the min start and max end of those kernels, a  *)
(* busy time equal to the plain sum of their durations, and a collective    *)
(* count equal to the number of them classify_kernel does not call compute  *)
C26_IterationEntries ==
    pc = "done" =>
        /\ {iter_results[j].iteration : j \in DOMAIN iter_results}
               = {i - 1 : i \in {i \in DOMAIN iterations :
                                    KernelsOfMarker(iterations[i]) # {}}}
        /\ \A j, k \in DOMAIN iter_results :
               j < k => iter_results[j].iteration < iter_results[k].iteration
        /\ \A j \in DOMAIN iter_results :
               LET ks == KernelsOfMarker(iterations[iter_results[j].iteration + 1])
                   e == iter_results[j]
               IN  /\ e.kernel_count >= 1
                   /\ e.kernel_count = Cardinality(ks)
                   /\ e.gpu_start = SetMin({k.start : k \in ks})
                   /\ e.gpu_end = SetMax({k.end : k \in ks})
                   /\ e.compute = DurationSum(ks)
                   /\ e.nccl_count =
                          Cardinality({k \in ks : classify_kernel(k.name) # "compute"})

(* an iteration was returned whose busy time exceeds its GPU span and which *)
(* holds a collective kernel spelled in upper case and a compute kernel,    *)
(* while another kept marker without kernels was dropped                    *)
C26_Witness ==
    /\ pc = "done"
    /\ Len(iterations) > Len(iter_results)
    /\ \E j \in DOMAIN iter_results :
          /\ iter_results[j].compute > iter_results[j].gpu_end - iter_results[j].gpu_start
          /\ iter_results[j].nccl_count = 1
          /\ iter_results[j].kernel_count = 2

----------------------------------------------------------------------------
(* Properties of nccl_breakdown *)

(* the collective kernels nccl_breakdown reads *)
BreakdownInput == {k \in Range(kernels(device, trim)) : k.name = AllReduceName}

(* C14: percentages never fail on a zero denominator.  When every           *)
(* collective kernel in the window has zero duration, nccl_breakdown        *)
(* returns its per-type entries with pct = 0 and raises no exception.       *)
C14_ZeroDenominator ==
    (pc = "done" /\ BreakdownInput # {} /\ \A k \in BreakdownInput : k.end = k.start) =>
        /\ breakdown.error = ""
        /\ breakdown.rows # <<>>
        /\ \A i \in DOMAIN breakdown.rows : breakdown.rows[i].pct = 0

----------------------------------------------------------------------------
(* Empty results *)

(* C15: empty-result conditions are not errors.  When the device/window has *)
(* no kernels, overlap_analysis (one of the five analysis calls of the      *)
(* claim) returns an empty or all-zero result and no error outcome.         *)
C15_EmptyIsNotError ==
    (pc = "done" /\ kernels(device, trim) = <<>>) =>
        /\ ov.error = ""
        /\ ov.total_ns = 0
        /\ ov.overlap_ns = 0

----------------------------------------------------------------------------
(* Properties of repeated calls *)

(* C16: no state carries over between calls.  After any sequence of earlier *)
(* project_nvtx calls on an unchanged event store, a call returns exactly   *)
(* what a first, fresh call with the same arguments returns.                *)
C16_NoCarryOver ==
    pc = "done" => results = project_nvtx(device, trim, pad)

(* a second call that nested two scopes, made after a call that left        *)
(* non-empty stacks behind                                                  *)
C16_Witness ==
    /\ pc = "done"
    /\ calls = 2
    /\ \E t \in DOMAIN depth_stacks_before : depth_stacks_before[t] # <<>>
    /\ Len(results) = 2
    /\ results[2].depth = 1

----------------------------------------------------------------------------
(* Frame of build_nvtx_tree *)

(* C17: build_nvtx_tree depends only on the primary thread.  With the same  *)
(* selected primary thread, the tree returned does not change when the      *)
(* scopes and launch calls of the other threads do.                         *)
C17_PrimaryThreadOnly ==
    pc = "done" => roots = roots_before

(* the selector never lost its choice: the second call always takes place *)
C17_SecondCallHappens ==
    pc = "edited" => primary_tid \in _find_primary_thread(device)

(* a non-empty tree was rebuilt after rows of another thread were removed *)
C17_Witness ==
    /\ pc = "done"
    /\ removed >= 2
    /\ roots # <<>>
    /\ \E i \in DOMAIN roots : roots[i].children # <<>>

----------------------------------------------------------------------------
(* Properties of Agent._select_skills *)

(* word occurs in text as a run of consecutive characters *)
OccursIn(word, text) ==
    \E i \in 1..Len(text) : \E j \in i..Len(text) : SubSeq(text, i, j) = word

(* the entries of the keyword map whose keyword the lower-cased question holds *)
KeywordsHit == {i \in DOMAIN _KEYWORD_MAP : OccursIn(_KEYWORD_MAP[i].keyword, Lower(question))}

(* C18: Agent._select_skills(question) returns, in ascending order and      *)
(* without duplicates, exactly the union of the skill lists of the keywords *)
(* of the keyword map that occur in the lower-cased question, and the empty *)
(* list when no keyword occurs                                              *)
C18_SelectedUnion ==
    pc = "done" =>
        /\ Range(selected_skills) =
               UNION {Range(_KEYWORD_MAP[i].skill_names) : i \in KeywordsHit}
        /\ \A i \in 1..(Len(selected_skills) - 1) :
               StrLess(selected_skills[i], selected_skills[i + 1])
        /\ KeywordsHit = {} => selected_skills = <<>>

(* a question typed partly in upper case that holds several keywords with   *)
(* overlapping skill lists has been answered                                *)
C18_Witness ==
    /\ pc = "done"
    /\ question # Lower(question)
    /\ Cardinality(KeywordsHit) >= 2
    /\ Len(selected_skills) >= 3
    /\ \E i, j \in KeywordsHit :
           /\ i # j
           /\ Range(_KEYWORD_MAP[i].skill_names) \cap Range(_KEYWORD_MAP[j].skill_names) # {}

----------------------------------------------------------------------------
(* Properties of search_hierarchy *)

(* name contains pattern, whatever the case of either *)
MatchesPattern(name, pattern) == OccursIn(Lower(pattern), Lower(name))

(* the kernels of a forest, in pre-order, whose name matches child_pattern  *)
(* and that have an NVTX ancestor whose name matches parent_pattern; under  *)
(* tells whether an NVTX node above the forest matches                      *)
RECURSIVE KernelsUnderMatch(_, _)
KernelsUnderMatch(nodes, under) ==
    IF nodes = <<>> THEN <<>>
    ELSE LET n == Head(nodes)
             here == IF n.type = "kernel"
                     THEN IF under /\ MatchesPattern(n.name, child_pattern)
                          THEN <<n.corr>>
                          ELSE <<>>
                     ELSE KernelsUnderMatch(n.children,
                              under \/ MatchesPattern(TextChars(n.name), parent_pattern))
         IN  here \o KernelsUnderMatch(Tail(nodes), under)

(* C19: search_hierarchy returns exactly the kernels of the built tree      *)
(* whose name contains child_pattern and that lie under an NVTX node whose  *)
(* name contains parent_pattern, case-insensitively; a kernel none of whose *)
(* NVTX ancestors matches parent_pattern is not returned                    *)
C19_HierarchyMatch ==
    pc = "done" =>
        [i \in DOMAIN hierarchy |-> hierarchy[i].corr] = KernelsUnderMatch(roots, FALSE)

----------------------------------------------------------------------------
(* Properties of the analyses of a device without correlated launches *)

(* no launch call is correlated to a kernel of the device *)
NoCorrelatedLaunch ==
    \A r \in Range(runtime) : \A k \in Range(kernel_tbl) :
        ~(k.corr = r.corr /\ k.dev = device)

(* C20: when no launch call is correlated to a kernel of the device, the    *)
(* selector returns 0 (no primary thread) and build_nvtx_tree and           *)
(* detect_iterations return the empty list                                  *)
C20_NoPrimaryThread ==
    (pc = "done" /\ NoCorrelatedLaunch) =>
        /\ primary_tid = 0
        /\ roots = <<>>
        /\ iter_results = <<>>

(* both calls were made on a store that holds a kernel of the device, a     *)
(* launch call inside a marker range, and no correlation between the two    *)
C20_Witness ==
    /\ pc = "done"
    /\ NoCorrelatedLaunch
    /\ \E k \in Range(kernel_tbl) : k.dev = device
    /\ \E n \in Range(nvtx) : \E r \in Range(runtime) :
           /\ n.text = marker
           /\ r.tid = n.tid
           /\ r.start >= n.start /\ r.end <= n.end

----------------------------------------------------------------------------
(* Properties of the depth project_nvtx assigns *)

(* the rows processed before row i that have a text, lie on the thread of   *)
(* row i and end after row i starts                                         *)
OpenBefore(i) ==
    {j \in 1..(i - 1) : /\ Loaded[j].text # ""
                        /\ Loaded[j].tid = Loaded[i].tid
                        /\ Loaded[j].end > Loaded[i].start}

(* C21: the depth project_nvtx assigns to a scope is the number of scopes   *)
(* processed earlier that have a non-empty text, lie on the same thread and *)
(* end strictly after this scope starts; scopes of other threads do not     *)
(* count                                                                    *)
C21_DepthCount ==
    pc = "done" =>
        \A j \in DOMAIN results :
            results[j].depth = Cardinality(OpenBefore(results[j].src))

(* a scope got depth 1 or more while a scope of the other thread, still     *)
(* open when it starts, was processed before it                             *)
C21_Witness ==
    /\ pc = "done"
    /\ \E j \in DOMAIN results :
          /\ results[j].depth >= 1
          /\ \E c \in 1..(results[j].src - 1) :
                /\ Loaded[c].text # ""
                /\ Loaded[c].tid # Loaded[results[j].src].tid
                /\ Loaded[c].end > Loaded[results[j].src].start

----------------------------------------------------------------------------
(* Properties of the nesting of build_nvtx_tree *)

(* <<eid of a Scope node, eid of its parent Scope node>>, 0 for a root *)
RECURSIVE ParentPairs(_, _)
ParentPairs(nodes, above) ==
    UNION {IF nodes[j].type # "nvtx" THEN {}
           ELSE {<<nodes[j].eid, above>>} \cup ParentPairs(nodes[j].children, nodes[j].eid)
           : j \in DOMAIN nodes}

(* the CPU interval of row a contains that of row b; properly so when the   *)
(* two intervals differ                                                     *)
CpuContains(a, b) == a.start <= b.start /\ b.end <= a.end
CpuContainsProperly(a, b) == CpuContains(a, b) /\ (a.start # b.start \/ a.end # b.end)

(* C22: tree nesting.  When the scopes of the primary thread obey the stack *)
(* discipline, the parent of a Scope node is the innermost kept scope whose *)
(* CPU interval contains the node's CPU interval, and a Scope node is a     *)
(* root iff no kept scope contains it (scopes with the same CPU interval    *)
(* may nest either way).                                                    *)
C22_ParentIsInnermost ==
    (pc = "done" /\ StackDiscipline(primary_tid)) =>
        \A pp \in ParentPairs(roots, 0) :
            LET n == TreeLoaded[pp[1]]
                kept == ScopeIds(roots) \ {pp[1]}
            IN  IF pp[2] = 0
                THEN \A c \in kept : ~CpuContainsProperly(TreeLoaded[c], n)
                ELSE /\ CpuContains(TreeLoaded[pp[2]], n)
                     /\ \A c \in kept \ {pp[2]} :
                            ~ ( /\ CpuContainsProperly(TreeLoaded[c], n)
                                /\ CpuContainsProperly(TreeLoaded[pp[2]], TreeLoaded[c]) )

----------------------------------------------------------------------------
(* Properties of the interval of a Scope node *)

(* the Leaf nodes in the subtree of a node *)
RECURSIVE SubtreeLeaves(_)
SubtreeLeaves(node) ==
    UNION {IF node.children[c].type = "kernel" THEN {node.children[c]}
           ELSE SubtreeLeaves(node.children[c]) : c \in DOMAIN node.children}

(* C23: scope interval.  For every Scope node of the tree build_nvtx_tree   *)
(* returns, start is the minimum start and end the maximum end over the     *)
(* Leaf nodes of its subtree after deduplication.                           *)
C23_ScopeInterval ==
    pc = "done" =>
        \A n \in ScopeNodes(roots) :
            /\ SubtreeLeaves(n) # {}
            /\ n.start = SetMin({k.start : k \in SubtreeLeaves(n)})
            /\ n.end = SetMax({k.end : k \in SubtreeLeaves(n)})

----------------------------------------------------------------------------
(* Properties relating build_nvtx_tree and project_nvtx *)

(* every scope and every launch call of the store lies on the primary thread *)
AllOnPrimary ==
    /\ \A n \in Range(nvtx) : n.tid = primary_tid
    /\ \A r \in Range(runtime) : r.tid = primary_tid

TripleOf(e) == <<e.name, e.start, e.end>>

(* how many Scope nodes of a forest carry the triple t *)
RECURSIVE ScopeCount(_, _)
ScopeCount(nodes, t) ==
    IF nodes = <<>> THEN 0
    ELSE (IF Head(nodes).type = "nvtx"
          THEN (IF TripleOf(Head(nodes)) = t THEN 1 ELSE 0)
               + ScopeCount(Head(nodes).children, t)
          ELSE 0)
         + ScopeCount(Tail(nodes), t)

(* how many projected entries of the projector carry the triple t *)
ProjectedCount(t) ==
    Cardinality({j \in DOMAIN results : results[j].projected /\ TripleOf(results[j]) = t})

(* C24: on a trace whose scopes and launch calls all lie on the primary     *)
(* thread, the multiset of (name, start, end) over the Scope nodes of       *)
(* build_nvtx_tree equals the multiset of (name, start, end) over the       *)
(* projected entries of project_nvtx called with the same arguments         *)
C24_TreeAgreesWithProjection ==
    (pc = "done" /\ AllOnPrimary) =>
        \A t \in {TripleOf(n) : n \in ScopeNodes(roots)}
                 \cup {TripleOf(results[j]) : j \in DOMAIN results} :
            ScopeCount(roots, t) = ProjectedCount(t)

(* both were called on a single-thread trace; the tree kept one scope and   *)
(* the projector also emitted an unprojected entry for a scope the tree     *)
(* discarded                                                                *)
C24_Witness ==
    /\ pc = "done"
    /\ AllOnPrimary
    /\ primary_tid # 0
    /\ \E n \in ScopeNodes(roots) : ScopeCount(roots, TripleOf(n)) = 1
    /\ \E j \in DOMAIN results : ~results[j].projected

----------------------------------------------------------------------------
(* Properties relating convergence_report and find_refinement_targets *)

(* the targets returned without the mixed note *)
PlainTargets == SelectSeq(targets, LAMBDA t : ~IsMixedTarget(t))

(* the leaf scopes of the tree that have exactly n kernel children *)
LeafScopesWith(n) ==
    {i \in DOMAIN PreOrder(tree_roots, 0) :
        /\ ~HasScopeChild(PreOrder(tree_roots, 0)[i].node)
        /\ KernelCount(PreOrder(tree_roots, 0)[i].node) = n}

(* C27: for any tree, with max_kernels = 1, unconverged_nvtx of the         *)
(* convergence report is the number of targets without the mixed note,      *)
(* unmapped_kernels is the sum of their kernel_count, and converged_nvtx    *)
(* and mapped_kernels both equal the number of leaf scopes with exactly one *)
(* kernel child                                                             *)
C27_ReportAgreesWithTargets ==
    (pc = "done" /\ max_kernels = 1) =>
        /\ report.unconverged_nvtx = Len(PlainTargets)
        /\ report.unmapped_kernels =
               SumSeq([i \in DOMAIN PlainTargets |-> PlainTargets[i].kernel_count])
        /\ report.converged_nvtx = Cardinality(LeafScopesWith(1))
        /\ report.mapped_kernels = Cardinality(LeafScopesWith(1))

(* both were called on a tree with a converged leaf and an unconverged one  *)
C27_Witness ==
    /\ pc = "done"
    /\ max_kernels = 1
    /\ report.converged_nvtx >= 1
    /\ report.unconverged_nvtx >= 1
    /\ report.unmapped_kernels >= 2
    /\ Len(PlainTargets) >= 1

----------------------------------------------------------------------------
(* Properties of the idle time of overlap_analysis *)

(* C28: for a non-empty kernel set whose kernels have end >= start, the     *)
(* idle time total_ns - compute_only_ns - nccl_only_ns - overlap_ns of      *)
(* overlap_analysis is >= 0 before the clamp, so max(0, idle) leaves it as  *)
(* it is                                                                    *)
C28_IdleNonNegative ==
    (pc = "done" /\ ov.error = "") =>
        /\ ov.total_ns - ov.compute_only_ns - ov.nccl_only_ns - ov.overlap_ns >= 0
        /\ ov.idle_raw_ns = ov.total_ns - ov.compute_only_ns - ov.nccl_only_ns - ov.overlap_ns
        /\ ov.idle_ns = ov.idle_raw_ns

(* an analysis of compute and collective kernels that overlap, with a       *)
(* collective kernel ending after every compute kernel and with idle time   *)
C28_Witness ==
    /\ pc = "done"
    /\ ov.error = ""
    /\ ov.compute_kernels >= 1
    /\ ov.nccl_kernels >= 1
    /\ ov.overlap_ns >= 1
    /\ ov.idle_raw_ns >= 1
    /\ \E k \in Range(kernels(device, trim)) :
          /\ k.name = AllReduceName
          /\ \A c \in Range(kernels(device, trim)) : c.name = GemmName => c.end < k.end

----------------------------------------------------------------------------
(* Properties of the scopes build_nvtx_tree drops *)

(* C29: no reparenting under stack discipline.  When the loaded scopes of   *)
(* the primary thread obey the stack discipline, every loaded scope whose   *)
(* CPU interval properly contains a scope kept in the tree is itself kept,  *)
(* so no Scope node is attached past a dropped loaded ancestor.             *)
C29_AncestorsKept ==
    (pc = "done" /\ StackDiscipline(primary_tid)) =>
        \A e \in ScopeIds(roots) : \A i \in DOMAIN TreeLoaded :
            CpuContainsProperly(TreeLoaded[i], TreeLoaded[e]) => i \in ScopeIds(roots)

----------------------------------------------------------------------------
(* Properties of the conversation history of the Agent *)

(* empty, or user, assistant, user, assistant ... ending with assistant *)
Alternates(history) ==
    /\ Len(history) % 2 = 0
    /\ \A i \in DOMAIN history :
           history[i].role = (IF i % 2 = 1 THEN "user" ELSE "assistant")

(* C30: after any sequence of ask and reset_conversation calls, failed LLM  *)
(* calls included, the history is empty or a strict alternation user,       *)
(* assistant, ... ending with an assistant message; has_conversation is     *)
(* true iff the history is non-empty and false right after                  *)
(* reset_conversation                                                       *)
C30_HistoryWellFormed ==
    /\ Alternates(conversation)
    /\ has_conversation(conversation) <=> conversation # <<>>
    /\ pc = "reset" => ~has_conversation(conversation)

====
